---- MODULE Spec2Model ----
(***************************************************************************)
(* Propolis (russross/s3dirsync): the debounced update queue (StartQueue,  *)
(* src/main.go) and the per-path reconciler (SyncFile, LstatServer,        *)
(* UploadFile in src/sync.go, with the cache operations of the cache file  *)
(* printed in src/README.md).                                              *)
(*                                                                         *)
(* Time is counted in units of one second: time.Nanoseconds() is `now`,    *)
(* and int64(delay)*1e9 is `delay`.                                        *)
(***************************************************************************)
EXTENDS Integers, Sequences, FiniteSets, TLC

\* ------------------------------------------------------------------ bounds
MaxEvents == 2
MaxTime == 3

Paths == {"a", "b"}
MaxInFlightChoices == {0, 1, 2}
DelayChoices == {2}

Unlimited == -1

VARIABLES
    \* StartQueue parameters
    delay, maxInFlight,
    \* the wall clock read by time.Nanoseconds()
    now,
    \* StartQueue locals owned by the coordinator goroutine
    queue,              \* heap array of Candidate pointers (object ids)
    cand,               \* the Candidate objects: id -> [Name, Inserted,
                        \* Updated, Push]
    pendingCandidates,  \* map path -> Candidate pointer
    waiting, inflight, shutdown,
    coord,              \* "running" | "exited" (after shutdown <- true; return)
    \* the other goroutines
    sleepers,           \* outstanding sleeper goroutines: the time each may
                        \* wake, in ascending order
    workers,            \* worker goroutines in flight: how many were started
                        \* with each <<path, push>>
    \* the environment
    budget,             \* how many more ingress events the producers send
                        \* (Unlimited: no bound)
    quitSent,
    \* history of what happened to the path Focus
    hist

qvars == <<delay, maxInFlight, now, queue, cand, pendingCandidates, waiting,
           inflight, shutdown, coord, sleepers, workers, budget, quitSent,
           hist>>

VARIABLES
    \* the Propolis options read by SyncFile and UploadFile
    opts,               \* [Practice, Paranoid, Directories, Refresh, Push,
                        \* Delete]
    \* the three stores a reconciliation works on
    local,              \* the local file system: path -> file
    cache,              \* the cache table: path -> row
    server,             \* the bucket: path -> object
    scan,               \* what ScanServer listed at startup: path -> object
                        \* (ServerHashHex, ServerSize); ByContents is built
                        \* from it
    \* the goroutines running SyncFile, each with its File record
    file,
    \* the environment
    runs,               \* how many reconciliations of each path were started
    stopped,            \* the process was stopped and started again
    \* history
    held,               \* path -> the objects the server has held for it
    cut,                \* path -> the process stopped during a Push
                        \* remote-update or remote-delete of it
    synced              \* a Push reconciliation of Focus has returned
                        \* without error, alone on its path

svars == <<opts, local, cache, server, scan, file, runs, stopped, held, cut,
           synced>>

VARIABLES
    \* the bucket and the cache table when the program starts
    bucket,             \* key -> the object a listing shows for it
    table,              \* path -> the row of the cache table
    \* ScanServer, ScanCache and AuditCache
    marker,             \* the key the next ListRequest resumes after
    truncated,          \* IsTruncated of the last page
    Catalog,            \* p.Catalog: path -> File record
    bycontents,         \* hash -> the path stored for it
    txn,                \* a transaction is open on the connection
    phase               \* the function that runs next

bvars == <<bucket, table, marker, truncated, Catalog, bycontents, txn, phase>>

VARIABLES
    \* the cache table and the requests, column by column and header by
    \* header
    db,                 \* the rows of the table cache, each the sequence of
                        \* its column values in the order of the schema
    handed,             \* the File record handed to SetFileInfo and to the
                        \* requests
    fetched,            \* the File record handed to GetFileInfo
    req,                \* the request that SendRequest built last
    step                \* what was called last

mvars == <<db, handed, fetched, req, step>>

vars == <<qvars, svars, bvars, mvars>>

\* ------------------------------------------------------------ helpers
\* insert x into the ascending sequence s
RECURSIVE InsertSorted(_, _)
InsertSorted(s, x) ==
    IF s = <<>> \/ x <= Head(s) THEN <<x>> \o s
    ELSE <<Head(s)>> \o InsertSorted(Tail(s), x)

RemoveAt(s, i) == [k \in 1..(Len(s) - 1) |-> IF k < i THEN s[k] ELSE s[k + 1]]

Swap(s, i, j) == [s EXCEPT ![i] = s[j], ![j] = s[i]]

\* ------------------------------------------------- the heap (type Queue)
\* Queue.Less: order by Inserted.  q holds object ids, o the objects; heap
\* index i (from 0) is q[i + 1].
Less(q, o, i, j) == o[q[i + 1]].Inserted < o[q[j + 1]].Inserted

\* container/heap up(): sift the element at index j towards the root
RECURSIVE HeapUp(_, _, _)
HeapUp(q, o, j) ==
    IF j = 0 THEN q
    ELSE LET i == (j - 1) \div 2
         IN IF Less(q, o, i, j) THEN q
            ELSE HeapUp(Swap(q, i + 1, j + 1), o, i)

\* container/heap down(): sift the element at index i towards the leaves of
\* the first n elements
RECURSIVE HeapDown(_, _, _, _)
HeapDown(q, o, i, n) ==
    LET j1 == 2 * i + 1
        j2 == j1 + 1
        j == IF j2 < n /\ ~Less(q, o, j1, j2) THEN j2 ELSE j1
    IN IF j1 >= n THEN q
       ELSE IF Less(q, o, i, j) THEN q
       ELSE HeapDown(Swap(q, i + 1, j + 1), o, j, n)

\* heap.Push(queue, elt)
HeapPush(q, o, id) == HeapUp(Append(q, id), o, Len(q))

\* heap.Pop(queue): swap root and last, sift down, take the last
HeapPop(q, o) ==
    LET n == Len(q) - 1
        d == HeapDown(Swap(q, 1, n + 1), o, 0, n)
    IN [elt |-> d[n + 1], queue |-> SubSeq(d, 1, n)]

\* ------------------------------------------------ StartQueue: the guards
Touched_Never(e) == FALSE

\* "was this updated while it waited?"
Touched(e) == e.Inserted # e.Updated

\* "has the delay been long enough?" (negated: the loop breaks when not)
OldEnough(n, e, sd) == ~(n - e.Inserted < delay /\ ~sd)

RoomForUpdate_OffByOne(inf) == inf <= maxInFlight

\* "is there room for an update right now?"
RoomForUpdate(inf) == inf < maxInFlight

NeedSleeper_SkipsLast(w, inf, q) == ~w /\ inf < maxInFlight /\ Len(q) > 1

NeedSleeper_OnlyWhenIdle(w, inf, q) == ~w /\ inf = 0 /\ Len(q) > 0

\* "launch a sleeper if necessary"
NeedSleeper(w, inf, q) == ~w /\ inf < maxInFlight /\ Len(q) > 0

CanExit_IgnoresInflight(sd, inf, q) == sd /\ Len(q) = 0

\* the exit test at the end of the loop body
CanExit(sd, inf, q) == sd /\ inf = 0 /\ Len(q) = 0

Touch_KeepsPush(e, push) == [e EXCEPT !.Updated = now]

\* "touch an existing entry"
Touch(e, push) == [e EXCEPT !.Updated = now, !.Push = push]

Forget_KeepsEntry(pend, name) == pend

\* "pendingCandidates[elt.Name] = nil, false"
Forget(pend, name) == [pend EXCEPT ![name] = 0]

\* The Candidate objects live in slots 1..|Paths|; a free slot holds NoCand.
Ids == 1..Cardinality(Paths)

NoCand == [Name |-> "-", Inserted |-> 0, Updated |-> 0, Push |-> FALSE]

CandSlot == [Name : Paths \cup {"-"}, Inserted : Int, Updated : Int,
             Push : BOOLEAN]

\* a free Candidate object
NewId == CHOOSE i \in Ids :
            cand[i] = NoCand /\ \A k \in 1..(i - 1) : cand[k] # NoCand

\* ------------------------------------------- StartQueue: case <-timeout
\* The loop "for queue.Len() > 0" as a function of the coordinator's
\* locals s = [queue, cand, pend, inflight, started]; now is the time read
\* before the loop; started collects the goroutines launched.
LoopStates == [queue : Seq(Ids), cand : [Ids -> CandSlot],
               pend : [Paths -> Nat], inflight : Nat,
               started : Seq(Paths \X BOOLEAN)]

TimeoutLoop[s \in LoopStates] ==
    IF Len(s.queue) = 0 THEN s
    ELSE
      LET popped == HeapPop(s.queue, s.cand)
          id == popped.elt
          e == s.cand[id]
      IN IF Touched(e)
         THEN \* requeue with Inserted = Updated, continue
              LET o2 == [s.cand EXCEPT ![id].Inserted = e.Updated]
              IN TimeoutLoop[[s EXCEPT !.cand = o2,
                                       !.queue = HeapPush(popped.queue, o2, id)]]
         ELSE IF ~OldEnough(now, e, shutdown)
         THEN \* oldest entry not old enough: push back, break
              [s EXCEPT !.queue = HeapPush(popped.queue, s.cand, id)]
         ELSE IF RoomForUpdate(s.inflight)
         THEN \* start the update, continue
              TimeoutLoop[[s EXCEPT
                              !.queue = popped.queue,
                              !.inflight = @ + 1,
                              !.pend = Forget(@, e.Name),
                              !.cand = [@ EXCEPT ![id] = NoCand],
                              !.started = Append(@, <<e.Name, e.Push>>)]]
         ELSE \* too many updates in flight: push back, break
              [s EXCEPT !.queue = HeapPush(popped.queue, s.cand, id)]

\* ------------------------------------------------------------- history
\* The model records the history of one path, Focus; StartQueue treats all
\* path names alike (it only compares them for equality), so what holds of
\* Focus among the other paths holds of every path.
\* hist records for Focus: n, the number of ingress events accepted for it
\* (2 standing for two or more); fresh, how much of delay is left since the latest event (0 once
\* delay has passed); push, the Push value of the latest event; within,
\* whether every event after the first came less than delay after the one
\* before; calm, whether the first event was not immediate and no later
\* event came after shutdown was requested; ndisp, the number of workers
\* dispatched (2 standing for two or more); dpush, the Push value the latest
\* worker was started with; immediate, whether the entry pending for Focus
\* was created by an immediate event and has not been touched since; err,
\* the errors workers have returned; asked, whether the latest event was
\* immediate.  The
\* history is kept in the runs with a bounded number of ingress events.
Focus == "a"

HistInit == [n |-> 0, fresh |-> 0, push |-> FALSE, within |-> TRUE,
             calm |-> TRUE, ndisp |-> 0, dpush |-> FALSE,
             immediate |-> FALSE, err |-> "nil", asked |-> FALSE]

HistEvent(h, p, push, imm) ==
    IF p # Focus \/ budget = Unlimited THEN h
    ELSE [h EXCEPT !.n = IF @ < 2 THEN @ + 1 ELSE @,
                   !.fresh = delay, !.push = push,
                   !.within = @ /\ (h.n = 0 \/ h.fresh > 0),
                   !.calm = @ /\ (IF h.n = 0 THEN ~imm ELSE ~shutdown),
                   !.immediate = imm /\ pendingCandidates[p] = 0,
                   !.asked = imm]

HistTick(h) == IF budget = Unlimited THEN h ELSE [h EXCEPT !.fresh = IF @ > 0 THEN @ - 1 ELSE 0]

\* the workers in flight after those of the sequence started are launched
RECURSIVE Launch(_, _)
Launch(w, started) ==
    IF started = <<>> THEN w
    ELSE Launch([w EXCEPT ![Head(started)] = @ + 1], Tail(started))

RECURSIVE HistStarted(_, _)
HistStarted(h, started) ==
    IF started = <<>> THEN h
    ELSE LET w == Head(started)
         IN HistStarted(IF w[1] # Focus \/ budget = Unlimited THEN h
                        ELSE [h EXCEPT !.ndisp = IF @ < 2 THEN @ + 1 ELSE @,
                                       !.dpush = w[2],
                                       !.immediate = FALSE],
                        Tail(started))

\* ---------------------------------------- StartQueue: end of loop body
\* After a case has been handled, with w, inf, q, o, sd, slp the values of
\* waiting, inflight, queue, the candidates, shutdown and the outstanding
\* sleepers: launch a sleeper if necessary, then reply and return if the
\* queue has drained.  A sleeper is recorded by the earliest time at which
\* it sends on timeout.
LoopEnd(w, inf, q, o, sd, slp) ==
    LET launch == NeedSleeper(w, inf, q)
        howlong == o[q[1]].Inserted + delay - now
        wake == IF howlong > 0 THEN now + howlong ELSE now
    IN /\ waiting' = (IF launch THEN TRUE ELSE w)
       /\ sleepers' = (IF launch THEN InsertSorted(slp, wake) ELSE slp)
       /\ coord' = (IF CanExit(sd, inf, q) THEN "exited" ELSE "running")

\* ------------------------------------------------------------ actions
\* case fn := <-check
Ingress(path, push, immediate) ==
    /\ coord = "running"
    /\ budget # 0
    /\ budget' = (IF budget = Unlimited THEN budget ELSE budget - 1)
    /\ hist' = HistEvent(hist, path, push, immediate)
    /\ IF pendingCandidates[path] # 0
       THEN \* touch an existing entry
            /\ cand' = [cand EXCEPT ![pendingCandidates[path]] = Touch(@, push)]
            /\ UNCHANGED <<queue, pendingCandidates>>
       ELSE \* new entry
            LET id == NewId
                t == IF immediate THEN now - delay ELSE now
                elt == [Name |-> path, Inserted |-> t, Updated |-> t,
                        Push |-> push]
            IN /\ cand' = [cand EXCEPT ![id] = elt]
               /\ queue' = HeapPush(queue, cand', id)
               /\ pendingCandidates' = [pendingCandidates EXCEPT ![path] = id]
    /\ LoopEnd(waiting, inflight, queue', cand', shutdown, sleepers)
    /\ UNCHANGED <<svars, bvars, mvars>>
    /\ UNCHANGED <<delay, maxInFlight, now, inflight, shutdown, workers,
                   quitSent>>

\* case <-timeout: sleeper i delivers its signal.  A sleeper sleeps only
\* "if pause > 0 && shutdown == nil", and it reads shutdown unsynchronised
\* at some moment after its launch, so once shutdown is set it may send at
\* any time.
Timeout(i) ==
    /\ coord = "running"
    /\ i \in 1..Len(sleepers)
    /\ now >= sleepers[i] \/ shutdown
    /\ \E s \in {TimeoutLoop[[queue |-> queue, cand |-> cand,
                               pend |-> pendingCandidates,
                               inflight |-> inflight, started |-> <<>>]]} :
          /\ queue' = s.queue
          /\ cand' = s.cand
          /\ pendingCandidates' = s.pend
          /\ inflight' = s.inflight
          /\ workers' = Launch(workers, s.started)
          /\ hist' = HistStarted(hist, s.started)
          /\ LoopEnd(FALSE, s.inflight, s.queue, s.cand, shutdown,
                     RemoveAt(sleepers, i))
    /\ UNCHANGED <<svars, bvars, mvars>>
    /\ UNCHANGED <<delay, maxInFlight, now, shutdown, budget, quitSent>>

\* what SyncFile returns to the goroutine of a worker: nil, an error of
\* the cache, or another error
Errors == {"nil", "cache", "other"}

\* the errors that workers have returned so far: none, some but none of the
\* cache, or one of the cache
HistFinished(h, err) ==
    IF budget = Unlimited \/ err = "nil" \/ h.err = "cache" THEN h
    ELSE [h EXCEPT !.err = err]

Signals_OnlyOnSuccess(err) == err = "nil"

\* the goroutine of a worker prints the error of SyncFile, if any, and
\* sends "finished <- true"
Signals(err) == TRUE

\* case <-finished: a worker's SyncFile has returned err and its
\* "finished <- true" is received
Finished(w, err) ==
    /\ coord = "running"
    /\ workers[w] > 0
    /\ workers' = [workers EXCEPT ![w] = @ - 1]
    /\ hist' = HistFinished(hist, err)
    /\ IF Signals(err)
       THEN /\ inflight' = inflight - 1
            /\ LoopEnd(waiting, inflight', queue, cand, shutdown, sleepers)
       ELSE UNCHANGED <<inflight, waiting, sleepers, coord>>
    /\ UNCHANGED <<svars, bvars, mvars>>
    /\ UNCHANGED <<delay, maxInFlight, now, queue, cand, pendingCandidates,
                   shutdown, budget, quitSent>>

\* case shutdown = <-quit
Quit ==
    /\ coord = "running"
    /\ ~quitSent
    /\ quitSent' = TRUE
    /\ shutdown' = TRUE
    /\ LoopEnd(FALSE, inflight, queue, cand, TRUE, sleepers)
    /\ UNCHANGED <<svars, bvars, mvars>>
    /\ UNCHANGED <<delay, maxInFlight, now, queue, cand, pendingCandidates,
                   inflight, workers, budget, hist>>

\* the clock advances
Tick ==
    /\ coord = "running"
    /\ now < MaxTime
    /\ now' = now + 1
    /\ hist' = HistTick(hist)
    /\ UNCHANGED <<svars, bvars, mvars>>
    /\ UNCHANGED <<delay, maxInFlight, queue, cand, pendingCandidates,
                   waiting, inflight, shutdown, coord, sleepers, workers,
                   budget, quitSent>>

\* ------------------------------------------------ the reconciler's data
\* md5 sums are names; the md5 of no bytes is the constant of sync.go
Hashes == {"h1", "h2"}

empty_file_md5_hash == "d41d8cd98f00b204e9800998ecf8427e"

\* os.FileInfo as SyncFile compares it: the file type bits of Mode (kind),
\* Size, and meta for the permission bits, Uid, Gid and Mtime_ns together.
\* NoInfo is the nil *os.FileInfo.
NoInfo == [kind |-> "none", size |-> 0, meta |-> 0]

Info(k, s, m) == [kind |-> k, size |-> s, meta |-> m]

\* a local file: what Lstat returns and the md5 of the bytes read from it
\* (of the target, for a symlink); NoFile is a path Lstat fails on, which
\* SyncFile takes for a file that is not there
NoFile == [info |-> NoInfo, data |-> ""]

RegularFile(h, m) == [info |-> Info("regular", 1, m), data |-> h]

\* a regular file of another size whose md5 is h all the same
LongFile(h) == [info |-> Info("regular", 2, 1), data |-> h]

EmptyFile == [info |-> Info("regular", 0, 1), data |-> empty_file_md5_hash]

Symlink(h) == [info |-> Info("symlink", 1, 1), data |-> h]

Directory == [info |-> Info("directory", 1, 1), data |-> empty_file_md5_hash]

Device == [info |-> Info("other", 0, 1), data |-> empty_file_md5_hash]

\* a server object (ETag and the metadata headers) and a cache row (md5 and
\* the five metadata columns) have the same shape; NoObj is "not there"
NoObj == [hash |-> "", info |-> NoInfo]

Obj(h, i) == [hash |-> h, info |-> i]

\* what ScanServer keeps of a listed object
NoEntry == [hash |-> "", size |-> 0]

Entry(o) == [hash |-> o.hash, size |-> o.info.size]

\* the option sets a run is started with; Push is elt.Push, which a run
\* gives to every record alike (the direction it was started in); Delete is
\* the flag -delete, which ParseOptions reads and stores nowhere
Defaults == [Practice |-> FALSE, Paranoid |-> FALSE, Directories |-> FALSE,
             Refresh |-> FALSE, Push |-> TRUE, Delete |-> TRUE]

OptionChoices ==
    {Defaults,
     [Defaults EXCEPT !.Refresh = TRUE, !.Directories = TRUE],
     [Defaults EXCEPT !.Paranoid = TRUE, !.Directories = TRUE,
                      !.Delete = FALSE],
     [Defaults EXCEPT !.Practice = TRUE],
     [Defaults EXCEPT !.Push = FALSE],
     [Defaults EXCEPT !.Push = FALSE, !.Delete = FALSE],
     [Defaults EXCEPT !.Push = FALSE, !.Practice = TRUE]}

\* what the stores may hold when a run starts; the file whose md5 collides
\* is looked at in the runs that scan the bucket, where a copy takes its
\* source from the scan or from the cache
LocalChoices(p, o) ==
    IF p = Focus
    THEN {NoFile, RegularFile("h1", 1), RegularFile("h1", 2),
          RegularFile("h2", 1), EmptyFile, Symlink("h1"), Directory, Device}
         \cup (IF o.Refresh THEN {LongFile("h1")} ELSE {})
    ELSE {NoFile, RegularFile("h2", 2)}

\* ... and an empty object, which the scan lists with the md5 of no bytes
ServerChoices(p, o) ==
    IF p = Focus
    THEN {NoObj, Obj("h1", Info("regular", 1, 1)),
          Obj("h2", Info("regular", 1, 1))}
         \cup (IF o.Refresh
               THEN {Obj(empty_file_md5_hash, Info("regular", 0, 1))}
               ELSE {})
    ELSE {Obj("h1", Info("regular", 1, 1))}

\* the cache has the row of the object, or for Focus has lost it
CacheChoices(p, o) == IF p = Focus THEN {NoObj, o} ELSE {o}

\* the goroutines that may run SyncFile at the same time
Slots == {1, 2}

\* a File record as NewFile leaves it, in a slot no goroutine uses
Idle == [pc |-> "idle", path |-> "-", LocalInfo |-> NoInfo,
         LocalHashHex |-> "", CacheInfo |-> NoInfo, CacheHashHex |-> "",
         ServerHashHex |-> "", src |-> "", err |-> FALSE, upload |-> FALSE,
         Contents |-> "nil", log |-> <<>>]

\* --------------------------------------------- start-up: what is scanned
MaxKeys == 3

MaxPage == 2

\* the keys of the bucket, which are the paths of the cache table, in the
\* order of a listing; 0 is the marker ""
Keys == 1..MaxKeys

\* max-keys of a ListRequest
list_request_size == MaxPage

\* an entry of ListBucketResult.Contents: ETag, which is the md5 of the
\* object between two quotes, and Size; Unlisted for a key the bucket does
\* not hold
Unlisted == [ETag |-> <<>>, Size |-> 0]

Listed(h, s) == [ETag |-> <<"\"", h, "\"">>, Size |-> s]

\* "hash := elt.ETag[1 : len(elt.ETag)-1]"
HashOf(ETag) == SubSeq(ETag, 2, Len(ETag) - 1)[1]

\* a row of the cache table: md5 and size; NoRow for a path without a row
NoRow == [md5 |-> "", size |-> 0]

Row(h, s) == [md5 |-> h, size |-> s]

\* elt.CacheInfo: nil, or the os.FileInfo read from a row
NoCacheInfo == [nil |-> TRUE, Size |-> 0]

CacheInfoOf(row) == [nil |-> FALSE, Size |-> row.size]

\* a File record as NewFileServer returns it, and a path p.Catalog lacks
NewFileServer == [present |-> TRUE, ServerHashHex |-> "", ServerSize |-> 0,
                  CacheInfo |-> NoCacheInfo, CacheHashHex |-> ""]

NotPresent == [NewFileServer EXCEPT !.present = FALSE]

\* the hashes a listing or a row can show
ScanHashes == Hashes \cup {empty_file_md5_hash}

\* no statement on the cache table and no request is looked at
MetaQuiet ==
    /\ db = {}
    /\ handed = "-"
    /\ fetched = "-"
    /\ req = "-"
    /\ step = "off"

\* the scans do not run (the queue and the reconciler are looked at on
\* their own)
ScanQuiet ==
    /\ bucket = [k \in Keys |-> Unlisted]
    /\ table = [k \in Keys |-> NoRow]
    /\ marker = 0
    /\ truncated = FALSE
    /\ Catalog = [k \in Keys |-> NotPresent]
    /\ bycontents = [h \in ScanHashes |-> 0]
    /\ txn = FALSE
    /\ phase = "off"

\* no reconciler at work (the queue is looked at on its own)
SyncQuiet ==
    /\ opts = Defaults
    /\ local = [p \in Paths |-> NoFile]
    /\ cache = [p \in Paths |-> NoObj]
    /\ server = [p \in Paths |-> NoObj]
    /\ scan = [p \in Paths |-> NoEntry]
    /\ file = [w \in Slots |-> Idle]
    /\ runs = [p \in Paths |-> 0]
    /\ stopped = FALSE
    /\ held = [p \in Paths |-> {}]
    /\ cut = [p \in Paths |-> FALSE]
    /\ synced = FALSE

QInit ==
    /\ SyncQuiet
    /\ ScanQuiet
    /\ MetaQuiet
    /\ delay \in DelayChoices
    /\ maxInFlight \in MaxInFlightChoices
    /\ now = 0
    /\ queue = <<>>
    /\ cand = [i \in Ids |-> NoCand]
    /\ pendingCandidates = [p \in Paths |-> 0]
    /\ waiting = FALSE
    /\ inflight = 0
    /\ shutdown = FALSE
    /\ coord = "running"
    /\ sleepers = <<>>
    /\ workers = [w \in Paths \X BOOLEAN |-> 0]
    /\ budget = MaxEvents
    /\ quitSent = FALSE
    /\ hist = HistInit

Init == QInit

Next ==
    \/ \E p \in Paths, push \in BOOLEAN, imm \in BOOLEAN : Ingress(p, push, imm)
    \/ \E i \in 1..Len(sleepers) : Timeout(i)
    \/ \E w \in Paths \X BOOLEAN, err \in Errors : Finished(w, err)
    \/ Quit
    \/ Tick

Spec == Init /\ [][Next]_vars

\* the producers stop sending on check
StopIngress ==
    /\ coord = "running"
    /\ budget = Unlimited
    /\ budget' = 0
    /\ UNCHANGED <<svars, bvars, mvars>>
    /\ UNCHANGED <<delay, maxInFlight, now, queue, cand, pendingCandidates,
                   waiting, inflight, shutdown, coord, sleepers, workers,
                   quitSent, hist>>

\* The queue with producers that may go on sending for ever, started late
\* on the clock, under the scheduling Go gives its goroutines: a sleeper
\* or worker blocked on its send is received by the coordinator's select.
LiveInit ==
    /\ SyncQuiet
    /\ ScanQuiet
    /\ MetaQuiet
    /\ delay \in DelayChoices
    /\ maxInFlight \in MaxInFlightChoices
    /\ now = MaxTime - 1
    /\ queue = <<>>
    /\ cand = [i \in Ids |-> NoCand]
    /\ pendingCandidates = [p \in Paths |-> 0]
    /\ waiting = FALSE
    /\ inflight = 0
    /\ shutdown = FALSE
    /\ coord = "running"
    /\ sleepers = <<>>
    /\ workers = [w \in Paths \X BOOLEAN |-> 0]
    /\ budget = Unlimited
    /\ quitSent = FALSE
    /\ hist = HistInit

LiveNext ==
    \/ \E p \in Paths, imm \in BOOLEAN : Ingress(p, TRUE, imm)
    \/ \E i \in 1..Len(sleepers) : Timeout(i)
    \/ \E w \in Paths \X BOOLEAN, err \in Errors : Finished(w, err)
    \/ Quit
    \/ Tick
    \/ StopIngress

SpecLive ==
    /\ LiveInit
    /\ [][LiveNext]_vars
    /\ WF_vars(\E i \in 1..Len(sleepers) : Timeout(i))
    /\ WF_vars(\E w \in Paths \X BOOLEAN, err \in Errors : Finished(w, err))

\* The queue with a bounded number of ingress events that stop while the
\* clock still has delay to run, under the scheduling Go gives its
\* goroutines and a clock that goes on: time passes, a sleeper whose pause
\* is over and a worker that has returned are received by the select.
WakeNext ==
    \/ \E p \in Paths, push \in BOOLEAN, imm \in BOOLEAN :
          now + delay <= MaxTime /\ Ingress(p, push, imm)
    \/ \E i \in 1..Len(sleepers) : Timeout(i)
    \/ \E w \in Paths \X BOOLEAN, err \in Errors : Finished(w, err)
    \/ Quit
    \/ Tick

SpecWake ==
    /\ QInit
    /\ [][WakeNext]_vars
    /\ WF_vars(\E i \in 1..Len(sleepers) : Timeout(i))
    /\ WF_vars(\E w \in Paths \X BOOLEAN, err \in Errors : Finished(w, err))
    /\ WF_vars(Tick)

NWorkers(p) == workers[<<p, TRUE>>] + workers[<<p, FALSE>>]

Pending(p) == pendingCandidates[p] # 0

\* ---------------------------------------------------------------- claims
\* C1: the in-flight counter stays between 0 and maxInFlight, and so does
\* the number of workers running a reconciliation.
C1_InFlightBounded ==
    /\ inflight >= 0
    /\ inflight <= maxInFlight
    /\ NWorkers("a") + NWorkers("b") <= maxInFlight

\* C1 witness: a worker is in flight at maxInFlight = 1 while another path
\* is pending, its timer has fired, and it is held back.
C1_HeldBackAtCapacity ==
    /\ maxInFlight = 1 /\ inflight = 1 /\ NWorkers(Focus) = 1
    /\ Pending("b") /\ ~waiting /\ now = MaxTime

\* C2 (the claim as stated): no two reconciliations of the same path are in
\* flight at the same time.
C2_OneWorkerPerPath == \A p \in Paths : NWorkers(p) <= 1

\* What C3 promises of the path Focus: at most one worker dispatched, and
\* once the path is no longer pending exactly one, started with the Push
\* value of the latest event.
OneReconciliationWithLastPush ==
    /\ hist.ndisp <= 1
    /\ ~Pending(Focus) => hist.ndisp = 1 /\ hist.dpush = hist.push

\* C3 (the claim as stated): for any sequence of events of one path, each
\* less than delay after the one before, exactly one reconciliation runs,
\* with the Push value of the last event.
C3_OnePerBurst ==
    hist.n > 0 /\ hist.within => OneReconciliationWithLastPush

\* C3 (amended): ... for any such sequence whose first event is not
\* immediate and whose later events arrive before shutdown is requested.
C3_OnePerCalmBurst ==
    hist.n > 0 /\ hist.within /\ hist.calm => OneReconciliationWithLastPush

\* C3 witness: two events of a calm burst were coalesced into one dispatch.
C3_BurstCoalesced ==
    /\ hist.n = 2 /\ hist.within /\ hist.calm
    /\ hist.ndisp = 1 /\ ~Pending(Focus) /\ ~shutdown

\* C9 (the claim as stated): once shutdown is requested and maxInFlight is
\* at least 1, the coordinator eventually replies and exits.
C9_ShutdownCompletes == (shutdown /\ maxInFlight >= 1) ~> (coord = "exited")

\* C9 (amended): once shutdown is requested, maxInFlight is at least 1 and
\* the producers have stopped sending on the ingress channel, the
\* coordinator eventually replies and exits.
C9_ShutdownCompletesOnceIngressStops ==
    (shutdown /\ maxInFlight >= 1 /\ budget = 0) ~> (coord = "exited")

\* C9 witness: shutdown was requested with an entry pending and a sleeper
\* of before the request still outstanding beside the new one.
C9_ShutdownWithPendingAndSleepers ==
    /\ shutdown /\ maxInFlight >= 1 /\ budget = 0 /\ coord = "running"
    /\ Len(queue) > 0 /\ Len(sleepers) >= 2

\* C10: the coordinator has replied only if the heap is empty, the
\* in-flight counter is 0, no path is pending, no worker is in flight, and
\* a path that was accepted has been dispatched.
C10_ReplyOnlyWhenDrained ==
    coord = "exited" =>
        /\ queue = <<>> /\ inflight = 0
        /\ \A p \in Paths : ~Pending(p) /\ NWorkers(p) = 0
        /\ hist.n > 0 => hist.ndisp >= 1

\* C10 witness: the coordinator replied after a path that arrived after the
\* shutdown request had been dispatched and had finished.
C10_RepliedAfterLateArrival ==
    /\ coord = "exited" /\ hist.n = 2 /\ hist.ndisp = 2
    /\ hist.within /\ ~hist.calm

\* C11: while shutdown has not been requested, a worker is started for a
\* path only when delay has passed since the latest ingress event of the
\* path, or when the path's entry was created by an immediate event and
\* has not been touched since.
C11_DispatchedAfterDelay ==
    [][(NWorkers(Focus)' > NWorkers(Focus) /\ ~shutdown /\ budget # Unlimited)
          => (hist.fresh = 0 \/ hist.immediate)]_vars

\* C11 witness: before shutdown, a worker runs for a path whose entry was
\* touched while it waited, delay after the touch; the entry's own delay
\* had run out before.
C11_TouchedThenDispatched ==
    /\ ~shutdown /\ NWorkers(Focus) = 1 /\ hist.ndisp = 1 /\ hist.n = 2
    /\ hist.within /\ hist.calm /\ hist.fresh = 0 /\ now = MaxTime

\* --------------------------------------------------------------- types
\* ---------------------------------------- the reconciler: local decisions
\* A File record carries pc, the operation on the cache, the server or the
\* local file system that its goroutine performs next, and log, the
\* operations it has performed with their results.
Did(op, res) == [op |-> op, res |-> res]

Note(e, op, res) == [e EXCEPT !.log = Append(@, Did(op, res))]

\* return from SyncFile, with or without an error
Return(e, failed) == [e EXCEPT !.pc = "done", !.err = failed]

\* the order in which a bucket listing returns the keys
Listing == <<"a", "b">>

ByContents_KeepsEmpty(h) ==
    LET hits == {i \in 1..Len(Listing) : scan[Listing[i]].hash = h}
    IN IF hits = {} THEN ""
       ELSE Listing[CHOOSE i \in hits : \A k \in hits : k <= i]

\* ScanServer's bycontents: the last listed key with this hash, "" if none
ByContents(h) ==
    LET hits == {i \in 1..Len(Listing) : scan[Listing[i]].hash = h}
    IN IF h = empty_file_md5_hash \/ hits = {} THEN ""
       ELSE Listing[CHOOSE i \in hits : \A k \in hits : k <= i]

\* GetMd5 reads the file (the link, for a symlink) unless it is empty or a
\* directory; only a read can fail
Md5Reads(e) ==
    \/ e.LocalInfo.kind = "symlink"
    \/ ~(e.LocalInfo.size = 0 \/ e.LocalInfo.kind = "directory")

\* the read fails because of the disk (~io) or because the file has gone
ReadFails(e, f, io) == Md5Reads(e) /\ (~io \/ f = NoFile)

\* GetMd5 on the local file f; it leaves elt.Contents open
GetMd5(e, f) ==
    IF e.LocalInfo.kind = "symlink"
    THEN [e EXCEPT !.LocalHashHex = f.data, !.Contents = "open"]
    ELSE IF e.LocalInfo.size = 0 \/ e.LocalInfo.kind = "directory"
    THEN [e EXCEPT !.LocalHashHex = empty_file_md5_hash,
                   !.LocalInfo.size = 0, !.Contents = "open"]
    ELSE [e EXCEPT !.LocalHashHex = f.data, !.Contents = "open"]

\* GetMd5 returns the error of Readlink, Open, Copy or Seek
Md5Failed(e) == Return(Note(e, "GetMd5", "fail"), TRUE)

\* elt.Contents.Close(): Contents is "nil", "open", "closed", "twice" after
\* a second Close, or "panic" after a Close through the nil interface
Close(e) ==
    [e EXCEPT !.Contents = IF @ = "open" THEN "closed"
                           ELSE IF @ = "nil" THEN "panic" ELSE "twice"]

\* "if elt.Contents != nil { elt.Contents.Close() }", and the body that
\* SendRequest closes or has closed by the time it returns
CloseIfSet(e) == IF e.Contents = "nil" THEN e ELSE Close(e)

Untracked_TracksDirectories(e) ==
    e.LocalInfo.kind \notin {"regular", "symlink", "directory"}

\* "is this a kind of file we don't track?"
Untracked(e) ==
    /\ e.LocalInfo.kind # "regular"
    /\ e.LocalInfo.kind # "symlink"
    /\ (~opts.Directories \/ e.LocalInfo.kind # "directory")

Differs_IgnoresSize(e) ==
    \/ e.LocalInfo.kind # e.CacheInfo.kind
    \/ e.LocalInfo.meta # e.CacheInfo.meta

\* the second case of both switches of SyncFile: the metadata differ
Differs(e) ==
    \/ e.LocalInfo.kind # e.CacheInfo.kind
    \/ e.LocalInfo.meta # e.CacheInfo.meta
    \/ e.LocalInfo.size # e.CacheInfo.size

\* "we can do a server-to-server copy" or "upload the file", unless this is
\* a practice run
Send(e, src) ==
    IF opts.Practice THEN Return(e, FALSE)
    ELSE [e EXCEPT !.src = src,
                   !.pc = IF src # "" THEN "CopyRequest" ELSE "UploadRequest"]

\* "try the scan results first"
FromScan(e) ==
    LET q == ByContents(e.LocalHashHex)
    IN IF opts.Refresh /\ q # "" /\ scan[q].size = e.LocalInfo.size
       THEN q ELSE ""

\* UploadFile from "is this a kind of file we don't track?" to the next
\* operation; io: reading the local file f succeeds
AfterClear(e, f, io) ==
    IF Untracked(e)
    THEN IF e.CacheInfo # NoInfo
         THEN IF opts.Practice THEN Return(CloseIfSet(e), FALSE)
              ELSE [CloseIfSet(e) EXCEPT !.pc = "UntrackedDeleteRequest"]
         ELSE Return(CloseIfSet(e), FALSE)
    ELSE IF e.LocalHashHex = "" /\ ReadFails(e, f, io) THEN Md5Failed(e)
    ELSE LET g == IF e.LocalHashHex = "" THEN GetMd5(e, f) ELSE e
         IN IF g.LocalHashHex = empty_file_md5_hash THEN Send(g, "")
            ELSE IF g.LocalHashHex = g.CacheHashHex THEN Send(g, g.path)
            ELSE IF FromScan(g) # "" THEN Send(g, FromScan(g))
            ELSE [g EXCEPT !.pc = "GetPathFromMd5"]

ClearFirst_Never(e) == FALSE

\* "clear cache entry first"
ClearFirst(e) == e.CacheInfo # NoInfo

\* UploadFile from its first line to the next operation
UploadFile(e, f, io) ==
    IF ClearFirst(e) THEN [e EXCEPT !.upload = TRUE, !.pc = "ClearFileInfo"]
    ELSE AfterClear([e EXCEPT !.upload = TRUE], f, io)

Pushes_Always(e) == TRUE

\* "if elt.Push": every record of a run has the direction of the run
Pushes(e) == opts.Push

\* SyncFile from "decide if anything needs updating" to the next operation;
\* the case "delete the remote file" prints its message before it looks at
\* p.Practice, and the message is kept in the log
Decide(e, f, io) ==
    IF e.LocalInfo = NoInfo /\ e.CacheInfo = NoInfo THEN Return(e, FALSE)
    ELSE IF Pushes(e)
    THEN IF e.LocalInfo = NoInfo /\ e.CacheInfo # NoInfo
         THEN LET a == Note(e, "Deleting remote file", "ok")
              IN IF opts.Practice THEN Return(a, FALSE)
                 ELSE [a EXCEPT !.pc = "DeleteRequest"]
         ELSE IF (e.LocalInfo # NoInfo /\ e.CacheInfo = NoInfo) \/ Differs(e)
         THEN UploadFile(e, f, io)
         ELSE IF opts.Paranoid
         THEN IF ReadFails(e, f, io) THEN Md5Failed(e)
              ELSE IF GetMd5(e, f).LocalHashHex = e.CacheHashHex
              THEN Return(Close(GetMd5(e, f)), FALSE)
              ELSE UploadFile(GetMd5(e, f), f, io)
         ELSE Return(e, FALSE)
    ELSE IF e.LocalInfo # NoInfo /\ e.CacheInfo = NoInfo
         THEN IF opts.Practice THEN Return(e, FALSE)
              ELSE [e EXCEPT !.pc = "Remove"]
         ELSE IF (e.LocalInfo = NoInfo /\ e.CacheInfo # NoInfo) \/ Differs(e)
         THEN Return(e, FALSE)
         ELSE IF opts.Paranoid
         THEN IF ReadFails(e, f, io) THEN Md5Failed(e)
              ELSE Return(Close(GetMd5(e, f)), FALSE)
         ELSE Return(e, FALSE)

\* --------------------------------------- the reconciler: the operations
\* how an operation on the cache or on the local file system can end
Outcomes == {"ok", "fail"}

\* how a request can end: "lost" is a request the server carried out whose
\* answer did not arrive, so that SendRequest returns an error
RequestOutcomes == {"ok", "fail", "lost"}

\* SetFileInfo is a DELETE and an INSERT: "half" is the INSERT failing
SetOutcomes == {"ok", "fail", "half"}

MaxRuns == 2

\* how often a path is reconciled
MaxRunsOf(p) == IF p = Focus THEN MaxRuns ELSE MaxRuns - 1

Busy(e) == e.pc # "idle"

\* SyncFile's return is the end of its last operation: a record stays at
\* "done" for no longer than it takes to look at it
NoneReturning == \A v \in Slots : file[v].pc # "done"

\* the goroutine w takes one step that leaves its record e2, the cache c2
\* and the bucket s2
Step(w, e2, c2, s2) ==
    /\ NoneReturning
    /\ file' = [file EXCEPT ![w] = e2]
    /\ cache' = c2
    /\ server' = s2
    /\ held' = [q \in Paths |-> held[q] \cup ({s2[q]} \ {NoObj})]
    /\ UNCHANGED <<opts, local, scan, runs, stopped, cut, synced>>
    /\ UNCHANGED <<qvars, bvars, mvars>>

\* go p.SyncFile(p.NewFile(path, push)), or SyncFile on a record of the
\* catalog that carries the scan's hash (hint); SyncFile's Lstat
StartSync(w, p, hint) ==
    /\ NoneReturning
    /\ ~Busy(file[w])
    /\ \A v \in Slots : v < w => Busy(file[v])
    /\ runs[p] < MaxRunsOf(p)
    /\ hint => scan[p] # NoEntry
    /\ file' = [file EXCEPT ![w] =
                  [Idle EXCEPT !.pc = "GetFileInfo", !.path = p,
                               !.LocalInfo = local[p].info,
                               !.ServerHashHex =
                                   IF hint THEN scan[p].hash ELSE ""]]
    /\ runs' = [runs EXCEPT ![p] = @ + 1]
    /\ UNCHANGED <<opts, local, cache, server, scan, stopped, held, cut,
                   synced>>
    /\ UNCHANGED <<qvars, bvars, mvars>>

StatDue_WithoutHint(e) == e.CacheInfo = NoInfo

\* LstatServer: "should we issue a stat request to the server?"
StatDue(e) == e.ServerHashHex # "" /\ e.CacheInfo = NoInfo

\* LstatServer: GetFileInfo, then what SyncFile decides if no StatRequest
\* is due
GetFileInfo(w, res, io) ==
    LET e == file[w]
        p == e.path
        got == Note([e EXCEPT !.CacheInfo = cache[p].info,
                              !.CacheHashHex = cache[p].hash],
                    "GetFileInfo", "ok")
    IN /\ e.pc = "GetFileInfo"
       /\ Step(w,
               IF res = "fail" THEN Return(Note(e, "GetFileInfo", res), TRUE)
               ELSE IF StatDue(got)
               THEN [got EXCEPT !.pc = "StatRequest"]
               ELSE Decide(got, local[p], io),
               cache, server)

\* LstatServer: StatRequest; "not found" is not an error
StatRequest(w, res, io) ==
    LET e == Note(file[w], "StatRequest", res)
        p == e.path
    IN /\ file[w].pc = "StatRequest"
       /\ Step(w,
               IF res = "fail" THEN Return(e, TRUE)
               ELSE IF server[p] = NoObj THEN Decide(e, local[p], io)
               ELSE [e EXCEPT !.CacheInfo = server[p].info,
                              !.ServerHashHex = server[p].hash,
                              !.pc = "LearnFileInfo"],
               cache, server)

\* LstatServer: "if we got a hit on the server, update the cache",
\* SetFileInfo(elt, false)
LearnFileInfo(w, res, io) ==
    LET e == Note(file[w], "SetFileInfo(false)", res)
        p == e.path
    IN /\ file[w].pc = "LearnFileInfo"
       /\ Step(w,
               IF res = "ok" THEN Decide(e, local[p], io) ELSE Return(e, TRUE),
               [cache EXCEPT ![p] =
                   IF res = "ok" THEN Obj(e.ServerHashHex, e.CacheInfo)
                   ELSE IF res = "half" THEN NoObj ELSE @],
               server)

AfterDelete_IgnoresError(e, res) == [e EXCEPT !.pc = "DeleteFileInfo"]

\* SyncFile after "delete the remote file": the cache entry goes next, or
\* the error is returned
AfterDelete(e, res) ==
    IF res = "ok" THEN [e EXCEPT !.pc = "DeleteFileInfo"] ELSE Return(e, TRUE)

\* the bucket after a DELETE that the server carried out
Deleted(p, res) == IF res = "fail" THEN server ELSE [server EXCEPT ![p] = NoObj]

\* SyncFile, local file gone: "delete the file before the metadata"
DeleteRequest(w, res) ==
    LET e == Note(file[w], "DeleteRequest", res)
    IN /\ file[w].pc = "DeleteRequest"
       /\ Step(w, AfterDelete(e, res), cache, Deleted(e.path, res))

\* SyncFile, local file gone: "delete the cache entry"
DeleteFileInfo(w, res) ==
    LET e == Note(file[w], "DeleteFileInfo", res)
    IN /\ file[w].pc = "DeleteFileInfo"
       /\ Step(w, Return(e, res # "ok"),
               IF res = "ok" THEN [cache EXCEPT ![e.path] = NoObj] ELSE cache,
               server)

\* UploadFile: "clear cache entry first", then on to the next operation
ClearFileInfo(w, res, io) ==
    LET e == Note(file[w], "DeleteFileInfo", res)
        p == e.path
    IN /\ file[w].pc = "ClearFileInfo"
       /\ Step(w,
               IF res = "ok" THEN AfterClear(e, local[p], io)
               ELSE Return(CloseIfSet(e), TRUE),
               IF res = "ok" THEN [cache EXCEPT ![p] = NoObj] ELSE cache,
               server)

\* UploadFile: "Deleting old file masked by untracked file"
UntrackedDeleteRequest(w, res) ==
    LET e == Note(file[w], "DeleteRequest", res)
    IN /\ file[w].pc = "UntrackedDeleteRequest"
       /\ Step(w,
               IF res = "ok" THEN [e EXCEPT !.pc = "UntrackedDeleteFileInfo"]
               ELSE Return(e, TRUE),
               cache, Deleted(e.path, res))

UntrackedDeleteFileInfo(w, res) ==
    LET e == Note(file[w], "DeleteFileInfo", res)
    IN /\ file[w].pc = "UntrackedDeleteFileInfo"
       /\ Step(w, Return(e, res # "ok"),
               IF res = "ok" THEN [cache EXCEPT ![e.path] = NoObj] ELSE cache,
               server)

\* the paths GetPathFromMd5 may return: this path if its row has the hash,
\* else any one path whose row has it (LIMIT 1), else ""
PathsFromMd5(e) ==
    IF cache[e.path].hash = e.LocalHashHex THEN {e.path}
    ELSE IF \E q \in Paths : cache[q].hash = e.LocalHashHex
    THEN {q \in Paths : cache[q].hash = e.LocalHashHex}
    ELSE {""}

\* UploadFile: "try the cache"
GetPathFromMd5(w, res, src) ==
    LET e == Note(file[w], "GetPathFromMd5", res)
    IN /\ file[w].pc = "GetPathFromMd5"
       /\ src \in PathsFromMd5(e)
       /\ Step(w, IF res = "ok" THEN Send(e, src) ELSE Return(Close(e), TRUE),
               cache, server)

\* the bucket after a PUT with X-Amz-Copy-Source and the REPLACE directive:
\* the bytes of the source under the metadata sent
Copied(e) ==
    [server EXCEPT ![e.path] =
        Obj(server[e.src].hash,
            [e.LocalInfo EXCEPT !.size = server[e.src].info.size])]

AfterCopy_UploadsAnyway(e, res) == [e EXCEPT !.pc = "UploadRequest"]

AfterCopy_GivesUp(e, res) ==
    IF res = "ok" THEN [Close(e) EXCEPT !.pc = "SetFileInfo"]
    ELSE Return(Close(e), TRUE)

\* UploadFile after CopyRequest: "copy failed, so try a regular upload"
\* with Contents as it is, or Contents.Close() and on to SetFileInfo
AfterCopy(e, res) ==
    IF res = "ok" THEN [Close(e) EXCEPT !.pc = "SetFileInfo"]
    ELSE [e EXCEPT !.pc = "UploadRequest"]

\* UploadFile: CopyRequest
CopyRequest(w, res) ==
    LET e == Note(file[w], "CopyRequest", res)
    IN /\ file[w].pc = "CopyRequest"
       /\ res # "fail" => server[e.src] # NoObj
       /\ Step(w, AfterCopy(e, res), cache,
               IF res = "fail" THEN server ELSE Copied(e))

\* the bucket after a PUT of the file with its Content-MD5
Uploaded(e) == [server EXCEPT ![e.path] = Obj(e.LocalHashHex, e.LocalInfo)]

AfterUpload_IgnoresError(e, res) ==
    [CloseIfSet(e) EXCEPT !.pc = "SetFileInfo"]

\* UploadFile after UploadRequest ("elt.Contents is closed by upload"): the
\* error is returned, or on to SetFileInfo
AfterUpload(e, res) ==
    IF res = "ok" THEN [CloseIfSet(e) EXCEPT !.pc = "SetFileInfo"]
    ELSE Return(CloseIfSet(e), TRUE)

\* UploadFile: UploadRequest, first choice or after a failed copy
UploadRequest(w, res) ==
    LET e == Note(file[w], "UploadRequest", res)
    IN /\ file[w].pc = "UploadRequest"
       /\ Step(w, AfterUpload(e, res), cache,
               IF res = "fail" THEN server ELSE Uploaded(e))

\* UploadFile: SetFileInfo(elt, true)
SetFileInfo(w, res) ==
    LET e == Note(file[w], "SetFileInfo(true)", res)
        p == e.path
    IN /\ file[w].pc = "SetFileInfo"
       /\ Step(w, Return(e, res # "ok"),
               [cache EXCEPT ![p] =
                   IF res = "ok" THEN Obj(e.LocalHashHex, e.LocalInfo)
                   ELSE IF res = "half" THEN NoObj ELSE @],
               server)

Removed_KeepsFile(p, res) == local

\* the local file system after os.Remove
Removed(p, res) == IF res = "ok" THEN [local EXCEPT ![p] = NoFile] ELSE local

\* SyncFile, pull: "delete the local file"
Remove(w, res) ==
    LET e == Note(file[w], "Remove", res)
    IN /\ file[w].pc = "Remove"
       /\ NoneReturning
       /\ file' = [file EXCEPT ![w] = Return(e, res # "ok")]
       /\ local' = Removed(e.path, res)
       /\ UNCHANGED <<opts, cache, server, scan, runs, stopped, held, cut,
                      synced>>
       /\ UNCHANGED <<qvars, bvars, mvars>>

\* SyncFile in direction Push has changed what it had to and returned nil,
\* and no other goroutine was at work on the path
PushSucceeded(w) ==
    /\ opts.Push /\ ~opts.Practice
    /\ ~file[w].err
    /\ \A v \in Slots \ {w} : file[v].path # file[w].path

\* the goroutine that ran SyncFile ends
Returned(w) ==
    /\ file[w].pc = "done"
    /\ file' = [file EXCEPT ![w] = Idle]
    /\ synced' = (IF file[w].path = Focus THEN PushSucceeded(w) ELSE synced)
    /\ UNCHANGED <<opts, local, cache, server, scan, runs, stopped, held, cut>>
    /\ UNCHANGED <<qvars, bvars, mvars>>

\* during a Push remote-update or remote-delete
InPushMutation(e) ==
    /\ opts.Push
    /\ Busy(e)
    /\ e.upload \/ e.pc \in {"DeleteRequest", "DeleteFileInfo"}

\* The process stops, its goroutines with it, and is started again without
\* a server scan: the stores are as the goroutines left them.
Stop ==
    /\ NoneReturning
    /\ ~stopped
    /\ \E w \in Slots : Busy(file[w])
    /\ stopped' = TRUE
    /\ file' = [w \in Slots |-> Idle]
    /\ opts' = [opts EXCEPT !.Refresh = FALSE]
    /\ scan' = [p \in Paths |-> NoEntry]
    /\ cut' = [p \in Paths |->
                 \E w \in Slots : file[w].path = p /\ InPushMutation(file[w])]
    /\ UNCHANGED <<local, cache, server, runs, held, synced>>
    /\ UNCHANGED <<qvars, bvars, mvars>>

\* no queue at work (the reconciler is looked at on its own)
QueueQuiet ==
    /\ delay = 0
    /\ maxInFlight = 0
    /\ now = 0
    /\ queue = <<>>
    /\ cand = [i \in Ids |-> NoCand]
    /\ pendingCandidates = [p \in Paths |-> 0]
    /\ waiting = FALSE
    /\ inflight = 0
    /\ shutdown = FALSE
    /\ coord = "running"
    /\ sleepers = <<>>
    /\ workers = [w \in Paths \X BOOLEAN |-> 0]
    /\ budget = 0
    /\ quitSent = FALSE
    /\ hist = HistInit

\* A run starts: the cache holds for a path either no row or the row of
\* the object the bucket holds; with Refresh the bucket has been scanned.
SyncInit ==
    /\ QueueQuiet
    /\ ScanQuiet
    /\ MetaQuiet
    /\ opts \in OptionChoices
    /\ local \in [Paths -> UNION {LocalChoices(p, opts) : p \in Paths}]
    /\ \A p \in Paths : local[p] \in LocalChoices(p, opts)
    /\ server \in [Paths -> UNION {ServerChoices(p, opts) : p \in Paths}]
    /\ \A p \in Paths : server[p] \in ServerChoices(p, opts)
    /\ cache \in [Paths -> UNION {ServerChoices(p, opts) : p \in Paths}]
    /\ \A p \in Paths : cache[p] \in CacheChoices(p, server[p])
    /\ scan = [p \in Paths |-> IF opts.Refresh THEN Entry(server[p])
                               ELSE NoEntry]
    /\ file = [w \in Slots |-> Idle]
    /\ runs = [p \in Paths |-> 0]
    /\ stopped = FALSE
    /\ held = [p \in Paths |-> {server[p]} \ {NoObj}]
    /\ cut = [p \in Paths |-> FALSE]
    /\ synced = FALSE

SyncNext ==
    \/ \E w \in Slots, p \in Paths, hint \in BOOLEAN : StartSync(w, p, hint)
    \/ \E w \in Slots, res \in Outcomes, io \in BOOLEAN :
          GetFileInfo(w, res, io)
    \/ \E w \in Slots, res \in Outcomes, io \in BOOLEAN :
          StatRequest(w, res, io)
    \/ \E w \in Slots, res \in SetOutcomes, io \in BOOLEAN :
          LearnFileInfo(w, res, io)
    \/ \E w \in Slots, res \in RequestOutcomes : DeleteRequest(w, res)
    \/ \E w \in Slots, res \in Outcomes : DeleteFileInfo(w, res)
    \/ \E w \in Slots, res \in Outcomes, io \in BOOLEAN :
          ClearFileInfo(w, res, io)
    \/ \E w \in Slots, res \in RequestOutcomes :
          UntrackedDeleteRequest(w, res)
    \/ \E w \in Slots, res \in Outcomes : UntrackedDeleteFileInfo(w, res)
    \/ \E w \in Slots, res \in Outcomes, src \in Paths \cup {""} :
          GetPathFromMd5(w, res, src)
    \/ \E w \in Slots, res \in RequestOutcomes : CopyRequest(w, res)
    \/ \E w \in Slots, res \in RequestOutcomes : UploadRequest(w, res)
    \/ \E w \in Slots, res \in SetOutcomes : SetFileInfo(w, res)
    \/ \E w \in Slots, res \in Outcomes : Remove(w, res)
    \/ \E w \in Slots : Returned(w)
    \/ Stop

SpecSync == SyncInit /\ [][SyncNext]_vars

\* ------------------------------------------------- start-up: the scans
\* what the bucket and the cache table may hold for a key: the row agrees
\* with the object, has another md5, has another size, or one is missing
ObjectChoices == {Unlisted, Listed("h1", 1), Listed("h2", 1),
                  Listed(empty_file_md5_hash, 0)}

RowChoices == {NoRow, Row("h1", 1), Row("h1", 2)}

\* the first n keys of the set S
FirstN(S, n) == {k \in S : Cardinality({j \in S : j < k}) < n}

LastKey(S) == CHOOSE k \in S : \A j \in S : j <= k

\* the answer of the server to a ListRequest with marker m that it fills
\* with n keys: the next n keys after m, and whether more follow
ListRequest(m, n) ==
    LET rest == {k \in Keys : k > m /\ bucket[k] # Unlisted}
    IN [Contents |-> FirstN(rest, n), IsTruncated |-> FirstN(rest, n) # rest]

Continue_WhileFull(listresult) ==
    Cardinality(listresult.Contents) = list_request_size

\* "truncated = listresult.IsTruncated", the test of the loop
Continue(listresult) == listresult.IsTruncated

\* the record ScanServer stores for a listed key
FileServer(o) ==
    [NewFileServer EXCEPT !.ServerHashHex = HashOf(o.ETag),
                          !.ServerSize = o.Size]

\* ScanServer: one pass of the loop, with a page of n keys
ScanPage(n, res) ==
    LET listresult == ListRequest(marker, n)
        page == listresult.Contents
    IN /\ phase = "ScanServer"
       /\ Cardinality(page) = n
       /\ IF res = "fail"
          THEN /\ phase' = "failed"
               /\ UNCHANGED <<marker, truncated, Catalog, bycontents>>
          ELSE /\ truncated' = Continue(listresult)
               /\ marker' = (IF page # {} THEN LastKey(page) ELSE marker)
               /\ Catalog' = [k \in Keys |->
                                 IF k \in page THEN FileServer(bucket[k])
                                 ELSE Catalog[k]]
               /\ bycontents' =
                     [h \in ScanHashes |->
                         LET hits == {k \in page : HashOf(bucket[k].ETag) = h}
                         IN IF h # empty_file_md5_hash /\ hits # {}
                            THEN LastKey(hits) ELSE bycontents[h]]
               /\ phase' = (IF truncated' THEN "ScanServer" ELSE "ScanCache")
       /\ UNCHANGED <<bucket, table, txn>>
       /\ UNCHANGED <<qvars, svars, mvars>>

\* ScanCache: the rows of done are read; a statement that fails ends it
ScanCache(done, res) ==
    LET rows == {k \in Keys : table[k] # NoRow}
    IN /\ phase = "ScanCache"
       /\ done \subseteq rows
       /\ IF res = "ok" THEN done = rows ELSE done # rows \/ rows = {}
       /\ Catalog' = [k \in Keys |->
                         IF k \in done
                         THEN [(IF Catalog[k].present THEN Catalog[k]
                                ELSE NewFileServer)
                                  EXCEPT !.CacheInfo = CacheInfoOf(table[k]),
                                         !.CacheHashHex = table[k].md5]
                         ELSE Catalog[k]]
       /\ phase' = (IF res = "ok" THEN "AuditCache" ELSE "failed")
       /\ UNCHANGED <<bucket, table, marker, truncated, bycontents, txn>>
       /\ UNCHANGED <<qvars, svars, mvars>>

Condemned_IgnoresSize(elt) ==
    /\ ~elt.CacheInfo.nil
    /\ \/ elt.ServerHashHex = ""
       \/ elt.ServerHashHex # elt.CacheHashHex

\* AuditCache: "entries where the cache does not match the server"
Condemned(elt) ==
    /\ ~elt.CacheInfo.nil
    /\ \/ elt.ServerHashHex = ""
       \/ elt.ServerHashHex # elt.CacheHashHex
       \/ elt.ServerSize # elt.CacheInfo.Size

\* how AuditCache can end: BEGIN TRANSACTION fails, a DELETE fails, COMMIT
\* fails, or none does
AuditOutcomes == {"begin", "delete", "commit", "ok"}

\* AuditCache: the rows of D are deleted, each with its Catalog entry,
\* before the statement that fails, if one does; the range over p.Catalog
\* puts deathrow in any order
AuditCache(D, res) ==
    LET deathrow == {k \in Keys : Catalog[k].present /\ Condemned(Catalog[k])}
    IN /\ phase = "AuditCache"
       /\ IF deathrow = {}
          THEN /\ res = "ok" /\ D = {}
               /\ phase' = "done"
               /\ UNCHANGED <<table, Catalog, txn>>
          ELSE /\ D \subseteq deathrow
               /\ CASE res = "begin" -> D = {}
                    [] res = "delete" -> D # deathrow
                    [] OTHER -> D = deathrow
               /\ table' = [k \in Keys |-> IF k \in D THEN NoRow ELSE table[k]]
               /\ Catalog' = [k \in Keys |->
                                 IF k \in D THEN NotPresent ELSE Catalog[k]]
               /\ txn' = (res \in {"delete", "commit"})
               /\ phase' = (IF res = "ok" THEN "done" ELSE "failed")
       /\ UNCHANGED <<bucket, marker, truncated, bycontents>>
       /\ UNCHANGED <<qvars, svars, mvars>>

ScanInit ==
    /\ QueueQuiet
    /\ SyncQuiet
    /\ MetaQuiet
    /\ bucket \in [Keys -> ObjectChoices]
    /\ table \in [Keys -> RowChoices]
    /\ marker = 0
    /\ truncated = TRUE
    /\ Catalog = [k \in Keys |-> NotPresent]
    /\ bycontents = [h \in ScanHashes |-> 0]
    /\ txn = FALSE
    /\ phase = "ScanServer"

ScanNext ==
    \/ \E n \in 0..list_request_size, res \in Outcomes : ScanPage(n, res)
    \/ \E done \in SUBSET Keys, res \in Outcomes : ScanCache(done, res)
    \/ \E D \in SUBSET Keys, res \in AuditOutcomes : AuditCache(D, res)

SpecScan == ScanInit /\ [][ScanNext]_vars

\* ------------------------------------------------- claims: the reconciler
Requests == {"CopyRequest", "UploadRequest", "DeleteRequest"}

CacheOps == {"GetFileInfo", "GetPathFromMd5", "DeleteFileInfo",
             "SetFileInfo(false)", "SetFileInfo(true)"}

\* the reconciliation e has performed op with result res
Has(e, op, res) == \E i \in 1..Len(e.log) : e.log[i] = Did(op, res)

\* ... and had done so before its i-th operation
HadBefore(e, i, op, res) == \E j \in 1..(i - 1) : e.log[j] = Did(op, res)

Mutated(e) == \E op \in Requests : Has(e, op, "ok")

CacheFailed(e) ==
    \E i \in 1..Len(e.log) : e.log[i].op \in CacheOps /\ e.log[i].res # "ok"

\* C4: in a Push remote-update (UploadFile) of a path whose cache row the
\* reconciliation has loaded, every CopyRequest, UploadRequest or
\* DeleteRequest it issues comes after its successful DeleteFileInfo; and
\* it calls SetFileInfo(elt, true) only after a CopyRequest or an
\* UploadRequest of its own has returned success.
C4_RowClearedBeforeRequest ==
    \A w \in Slots :
        LET e == file[w]
        IN e.upload =>
             \A i \in 1..Len(e.log) :
                /\ (e.log[i].op \in Requests /\ e.CacheInfo # NoInfo)
                      => HadBefore(e, i, "DeleteFileInfo", "ok")
                /\ e.log[i].op = "SetFileInfo(true)"
                      => \/ HadBefore(e, i, "CopyRequest", "ok")
                         \/ HadBefore(e, i, "UploadRequest", "ok")

\* C4, witness: an UploadFile of a path with a row has cleared the row,
\* sent its request with success and inserted the new row.
C4_UpdatedPathWithRow ==
    \E w \in Slots :
        LET e == file[w]
        IN /\ e.pc = "done" /\ e.upload /\ e.CacheInfo # NoInfo
           /\ Has(e, "DeleteFileInfo", "ok")
           /\ Has(e, "CopyRequest", "ok") \/ Has(e, "UploadRequest", "ok")
           /\ Has(e, "SetFileInfo(true)", "ok")
           /\ cache[e.path] = Obj(e.LocalHashHex, e.LocalInfo)

\* C5: when a reconciliation ends after a remote mutation of its path
\* succeeded and none of its cache operations failed, the cache row of the
\* path agrees with the server object: the row is the object's md5 and
\* metadata after an upload or copy, and there is no row after a delete.
C5_CacheAgreesWithServer ==
    \A w \in Slots :
        LET e == file[w]
        IN (e.pc = "done" /\ Mutated(e) /\ ~CacheFailed(e)) =>
             IF Has(e, "DeleteRequest", "ok")
             THEN cache[e.path] = NoObj
             ELSE cache[e.path] # NoObj /\ cache[e.path] = server[e.path]

\* C6: when a reconciliation returns an error, the cache row of its path
\* is absent or is a row that the server object of the path has matched at
\* some earlier moment.
C6_ErrorLeavesNoInventedRow ==
    \A w \in Slots :
        LET e == file[w]
        IN (e.pc = "done" /\ e.err) =>
             cache[e.path] = NoObj \/ cache[e.path] \in held[e.path]

\* what an upload of the local file f leaves on the server and in the cache
Image(f) ==
    IF f.info.kind = "directory"
    THEN Obj(empty_file_md5_hash, [f.info EXCEPT !.size = 0])
    ELSE Obj(f.data, f.info)

Tracked(f) ==
    \/ f.info.kind \in {"regular", "symlink"}
    \/ f.info.kind = "directory" /\ opts.Directories

\* C7: after the process stopped during a Push remote-update or
\* remote-delete of a path, a reconciliation of the path in the next run
\* (no server scan, no practice mode, no error, no other goroutine on the
\* path) ends with the server object and the cache row both equal to the
\* local file, or both absent when the local file is absent or of an
\* untracked kind.
C7_NextRunRepairs ==
    \A w \in Slots :
        LET e == file[w]
            p == e.path
        IN (/\ e.pc = "done" /\ ~e.err
            /\ stopped /\ cut[p] /\ opts.Push /\ ~opts.Practice
            /\ \A v \in Slots \ {w} : file[v].path # p) =>
             IF Tracked(local[p])
             THEN server[p] = Image(local[p]) /\ cache[p] = Image(local[p])
             ELSE server[p] = NoObj /\ cache[p] = NoObj

\* C8: in Push with the local file absent and a cache row loaded, the
\* reconciliation calls DeleteFileInfo only after its DeleteRequest has
\* succeeded; when the DeleteRequest fails it returns the error at once,
\* has not touched the row, and the row is still there if no other
\* reconciliation of the path has been started.
C8_RemoteDeleteBeforeRow ==
    \A w \in Slots :
        LET e == file[w]
        IN (opts.Push /\ e.LocalInfo = NoInfo /\ e.CacheInfo # NoInfo) =>
             /\ \A i \in 1..Len(e.log) :
                   e.log[i].op = "DeleteFileInfo"
                      => HadBefore(e, i, "DeleteRequest", "ok")
             /\ (Has(e, "DeleteRequest", "fail") \/ Has(e, "DeleteRequest", "lost"))
                   => /\ e.pc = "done" /\ e.err
                      /\ \A res \in Outcomes : ~Has(e, "DeleteFileInfo", res)
                      /\ runs[e.path] = 1 => cache[e.path] # NoObj

\* C8, witness: a remote delete failed, the error was returned and the row
\* is in place.
C8_RemoteDeleteFailed ==
    \E w \in Slots :
        LET e == file[w]
        IN /\ opts.Push /\ e.LocalInfo = NoInfo /\ e.CacheInfo # NoInfo
           /\ Has(e, "DeleteRequest", "fail")
           /\ e.pc = "done" /\ e.err
           /\ cache[e.path] = Obj(e.CacheHashHex, e.CacheInfo)

\* the successful mutating requests of the reconciliation e
Successes(e) ==
    {i \in 1..Len(e.log) : e.log[i].op \in Requests /\ e.log[i].res = "ok"}

\* C12: one call of SyncFile has at most one mutating remote request
\* (CopyRequest, UploadRequest or DeleteRequest) that returned success.
C12_OneSuccessfulRequest ==
    \A w \in Slots : Cardinality(Successes(file[w])) <= 1

\* C12, witness: the copy failed, the upload that followed succeeded, and
\* SyncFile returned without error.
C12_CopyFailedThenUploaded ==
    \E w \in Slots :
        LET e == file[w]
        IN /\ e.pc = "done" /\ ~e.err
           /\ Has(e, "CopyRequest", "fail")
           /\ Has(e, "UploadRequest", "ok")

RowWrites == {"DeleteFileInfo", "SetFileInfo(false)", "SetFileInfo(true)"}

\* the i-th operation of e wrote to the cache table (a SetFileInfo whose
\* INSERT failed has deleted)
Wrote(e, i) == e.log[i].op \in RowWrites /\ e.log[i].res # "fail"

\* C13 (the claim as stated): one call of SyncFile changes the cache row of
\* its path at most once.  A DeleteFileInfo that follows a DeleteFileInfo
\* of the same call finds no row and is not counted.
C13_OneRowChange ==
    \A w \in Slots :
        LET e == file[w]
        IN Cardinality({i \in 1..Len(e.log) :
                          /\ Wrote(e, i)
                          /\ ~(/\ e.log[i].op = "DeleteFileInfo"
                               /\ HadBefore(e, i, "DeleteFileInfo", "ok"))})
             <= 1

\* C13 (amended): one call of SyncFile changes the cache row of its path at
\* most three times, in this order: at most one insert by LstatServer's
\* learning from the server, then at most one delete before its mutating
\* remote request, then at most one delete or insert after that request
\* has succeeded.
C13_RowChangesInOrder ==
    \A w \in Slots :
        LET e == file[w]
            n == Len(e.log)
        IN /\ Cardinality({i \in 1..n : Wrote(e, i)}) <= 3
           /\ \A i \in 1..n, j \in 1..n :
                 (i < j /\ Wrote(e, i) /\ Wrote(e, j)) =>
                    /\ e.log[j].op # "SetFileInfo(false)"
                    /\ \/ e.log[i].op = "SetFileInfo(false)"
                       \/ /\ e.log[i].op = "DeleteFileInfo"
                          /\ \E k \in (i + 1)..(j - 1) :
                                /\ e.log[k].op \in Requests
                                /\ e.log[k].res = "ok"

\* C13, witness: one call learned the row from the server, cleared it,
\* sent its request and inserted the new row.
C13_LearnedClearedInserted ==
    \E w \in Slots :
        LET e == file[w]
        IN /\ e.pc = "done" /\ ~e.err
           /\ Has(e, "SetFileInfo(false)", "ok")
           /\ Has(e, "DeleteFileInfo", "ok")
           /\ Has(e, "SetFileInfo(true)", "ok")

\* the requests that go to the server
RemoteOps == Requests \cup {"StatRequest"}

\* C14: after a Push reconciliation of a path has succeeded, a second
\* reconciliation of the path, with the local file of a tracked kind and
\* unchanged and paranoid off, issues no remote request and leaves the
\* cache row of the path as it is.
C14_SecondPushIsNoOp ==
    [][(synced /\ ~opts.Paranoid /\ Tracked(local[Focus])) =>
          /\ cache'[Focus] = cache[Focus]
          /\ \A w \in Slots :
                file'[w].path = Focus =>
                   \A i \in 1..Len(file'[w].log) :
                      file'[w].log[i].op \notin RemoteOps]_vars

\* LstatServer has returned nil to the reconciliation e
LstatServerDone(e) ==
    /\ Has(e, "GetFileInfo", "ok")
    /\ e.pc \notin {"StatRequest", "LearnFileInfo"}
    /\ ~Has(e, "StatRequest", "fail")
    /\ \A i \in 1..Len(e.log) :
          e.log[i].op = "SetFileInfo(false)" => e.log[i].res = "ok"

\* what a reconciliation has decided: no action ...
NoAction(e) ==
    /\ ~e.upload /\ e.pc = "done"
    /\ ~Has(e, "Deleting remote file", "ok")
    /\ \A i \in 1..Len(e.log) : e.log[i].op \notin Requests

\* ... or the remote delete of SyncFile, which a practice run announces and
\* any other run goes on to request
RemoteDelete(e) ==
    /\ ~e.upload
    /\ Has(e, "Deleting remote file", "ok")
    /\ ~opts.Practice =>
          \/ e.pc = "DeleteRequest"
          \/ \E res \in RequestOutcomes : Has(e, "DeleteRequest", res)

\* C15: in direction Push, with L the local file and C the cache row after
\* LstatServer: L absent and C absent, no action; L absent and C present,
\* remote delete; L present and C absent or different in mode, uid, gid,
\* size or mtime, remote update (UploadFile is called); otherwise remote
\* update if and only if paranoid is on and the md5 of the local file is
\* not the cached one, and with paranoid off no remote call.
C15_PushDecisionTable ==
    \A w \in Slots :
        LET e == file[w]
            L == local[e.path].info
            C == e.CacheInfo
            hash == Image(local[e.path]).hash
        IN (opts.Push /\ Busy(e) /\ LstatServerDone(e)) =>
             IF L = NoInfo /\ C = NoInfo THEN NoAction(e) /\ ~e.err
             ELSE IF L = NoInfo THEN RemoteDelete(e)
             ELSE IF \/ C = NoInfo
                     \/ L.kind # C.kind \/ L.meta # C.meta \/ L.size # C.size
             THEN e.upload
             ELSE IF opts.Paranoid
             THEN IF e.upload THEN hash # e.CacheHashHex
                  ELSE NoAction(e) /\ (hash = e.CacheHashHex \/ e.err)
             ELSE NoAction(e) /\ ~e.err

\* C15, witness: with paranoid on and the metadata equal, the md5 of the
\* local file was not the cached one and the file was uploaded.
C15_ParanoidUpload ==
    \E w \in Slots :
        LET e == file[w]
            L == local[e.path].info
        IN /\ opts.Push /\ opts.Paranoid
           /\ e.pc = "done" /\ ~e.err /\ e.upload
           /\ L # NoInfo /\ L = e.CacheInfo
           /\ e.LocalHashHex # e.CacheHashHex
           /\ Has(e, "UploadRequest", "ok")

\* C16: when the option delete is false, no reconciliation sends a
\* DeleteRequest or removes a local file.
C16_NoDeleteWhenOff ==
    \A w \in Slots :
        ~opts.Delete =>
           /\ file[w].pc \notin {"DeleteRequest", "UntrackedDeleteRequest",
                                 "Remove"}
           /\ \A i \in 1..Len(file[w].log) :
                 file[w].log[i].op \notin {"DeleteRequest", "Remove"}

\* C17: in a practice run no step of a reconciliation changes the bucket,
\* the local file system or a cache row, and no mutating request is sent.
C17_PracticeChangesNothing ==
    [][opts.Practice =>
          /\ server' = server /\ local' = local /\ cache' = cache
          /\ \A w \in Slots :
                \A i \in 1..Len(file'[w].log) :
                   file'[w].log[i].op \notin Requests \cup {"Remove"}]_vars

\* C18: in direction Pull, when the cache has a row for the path and the
\* local file is absent or differs from the row in mode, uid, gid, size or
\* mtime, a reconciliation that returns without error leaves a local file
\* with the size, mode and mtime of the row.
C18_PullDownloads ==
    \A w \in Slots :
        LET e == file[w]
            L == e.LocalInfo
            C == e.CacheInfo
        IN (/\ ~opts.Push /\ e.pc = "done" /\ ~e.err /\ LstatServerDone(e)
            /\ C # NoInfo
            /\ \/ L = NoInfo
               \/ L.kind # C.kind \/ L.meta # C.meta \/ L.size # C.size)
           => local[e.path].info = C

\* a reconciliation in direction Pull that found a local file and no row
\* has returned without error
PullFoundStray(e) ==
    /\ ~opts.Push /\ e.pc = "done" /\ ~e.err /\ LstatServerDone(e)
    /\ e.LocalInfo # NoInfo /\ e.CacheInfo = NoInfo

\* the local file of e is gone and e has left the cache and the bucket alone
LocalRemovedOnly(e) ==
    /\ local[e.path] = NoFile
    /\ \A i \in 1..Len(e.log) : e.log[i].op \notin Requests \cup RowWrites

\* C19 (the claim as stated): in direction Pull, when the local file is
\* present and the path has no cache row after LstatServer, SyncFile
\* removes the local file and changes neither the cache nor the server.
C19_PullRemovesStray ==
    \A w \in Slots : PullFoundStray(file[w]) => LocalRemovedOnly(file[w])

\* C19 (amended): ... SyncFile, unless it is a practice run, removes the
\* local file and changes neither the cache nor the server.
C19_PullRemovesStrayUnlessPractice ==
    \A w \in Slots :
        (PullFoundStray(file[w]) /\ ~opts.Practice)
           => LocalRemovedOnly(file[w])

\* C19, witness: os.Remove has removed a local file that had no row.
C19_StrayRemoved ==
    \E w \in Slots :
        /\ PullFoundStray(file[w]) /\ ~opts.Practice
        /\ Has(file[w], "Remove", "ok")
        /\ local[file[w].path] = NoFile

\* C20: a copy from another path is attempted only when the md5 recorded
\* for the source is LocalHashHex and the size recorded for it is the
\* local size; the record is the scan's when ByContents gave the source,
\* and the cache row when GetPathFromMd5 gave it.
C20_CopySourceMatches ==
    [][\A w \in Slots :
          LET e == file'[w]
              q == e.src
          IN (e.pc = "CopyRequest" /\ file[w].pc # "CopyRequest"
              /\ q # e.path) =>
                IF Has(e, "GetPathFromMd5", "ok")
                THEN /\ cache[q].hash = e.LocalHashHex
                     /\ cache[q].info.size = e.LocalInfo.size
                ELSE /\ scan[q].hash = e.LocalHashHex
                     /\ scan[q].size = e.LocalInfo.size]_vars

\* the reconciliation e has sent CopyRequest and got an error back
CopyFailed(e) ==
    Has(e, "CopyRequest", "fail") \/ Has(e, "CopyRequest", "lost")

UploadTried(e) == \E res \in RequestOutcomes : Has(e, "UploadRequest", res)

InsertTried(e) ==
    e.pc = "SetFileInfo" \/ \E res \in SetOutcomes : Has(e, "SetFileInfo(true)", res)

\* C21 (the claim as stated): when CopyRequest has failed in a Push
\* remote-update, the path has a cache row after the call exactly when the
\* fallback upload succeeded.
C21_RowIffSent ==
    \A w \in Slots :
        LET e == file[w]
        IN e.upload /\ CopyFailed(e) /\ e.pc = "done" /\ runs[e.path] = 1 =>
            (cache[e.path] # NoObj <=> Has(e, "UploadRequest", "ok"))

\* C21: when CopyRequest fails in a Push remote-update, the same call of
\* SyncFile goes on to UploadRequest with Contents still open; it calls
\* SetFileInfo exactly when the fallback upload succeeded, and the path has
\* the row of the local file after the call exactly when the upload and
\* SetFileInfo both succeeded; when the upload fails too, the call returns
\* the error and the path has no cache row.  The state of the row is that
\* of a path no other reconciliation has been started for.
C21_CopyFallback ==
    \A w \in Slots :
        LET e == file[w]
        IN e.upload /\ CopyFailed(e) =>
            /\ e.pc = "UploadRequest" \/ UploadTried(e)
            /\ e.pc = "UploadRequest" => e.Contents = "open"
            /\ InsertTried(e) <=> Has(e, "UploadRequest", "ok")
            /\ e.pc = "done" /\ runs[e.path] = 1 =>
                  cache[e.path] =
                      IF /\ Has(e, "UploadRequest", "ok")
                         /\ Has(e, "SetFileInfo(true)", "ok")
                      THEN Obj(e.LocalHashHex, e.LocalInfo) ELSE NoObj
            /\ UploadTried(e) /\ ~Has(e, "UploadRequest", "ok")
                  => e.pc = "done" /\ e.err

\* C21, witness: the copy failed, the upload after it succeeded, SetFileInfo
\* failed, and the path has no row.
C21_UploadedButNoRow ==
    \E w \in Slots :
        /\ file[w].pc = "done" /\ file[w].err
        /\ Has(file[w], "CopyRequest", "fail")
        /\ Has(file[w], "UploadRequest", "ok")
        /\ Has(file[w], "SetFileInfo(true)", "fail")
        /\ cache[file[w].path] = NoObj

\* C24: when opening or reading the local file for hashing fails during a
\* reconciliation, SyncFile returns an error, has sent no request that
\* changes the server object, and the cache row of the path is the one the
\* call found (on a path no other reconciliation has been started for).
C24_LocalFailureChangesNothing ==
    \A w \in Slots :
        LET e == file[w]
        IN Has(e, "GetMd5", "fail") =>
            /\ e.pc = "done" /\ e.err
            /\ \A i \in 1..Len(e.log) : e.log[i].op \notin Requests
            /\ runs[e.path] = 1 => cache[e.path] = Obj(e.CacheHashHex, e.CacheInfo)

\* C25: a call of SyncFile that has opened Contents has closed it, once,
\* when it returns.
C25_ContentsClosedOnce ==
    \A w \in Slots :
        file[w].pc = "done" => file[w].Contents \in {"nil", "closed"}

\* the local file of e is of a kind that is not tracked
KindUntracked(e) ==
    /\ e.LocalInfo # NoInfo
    /\ e.LocalInfo.kind \notin {"regular", "symlink"}
    /\ e.LocalInfo.kind = "directory" => ~opts.Directories

\* what C26 says of a Push remote-update e that has returned without error
UntrackedOutcome(e) ==
    IF e.CacheInfo # NoInfo
    THEN /\ Has(e, "DeleteRequest", "ok")
         /\ runs[e.path] = 1 => cache[e.path] = NoObj
    ELSE \A i \in 1..Len(e.log) : e.log[i].op \notin Requests \cup RowWrites

\* C26 (the claim as stated): a Push remote-update of a local file of an
\* untracked kind never uploads or copies; when it returns without error it
\* has sent a DeleteRequest and the row is gone if the path had a cache row,
\* and has sent no request and written no row otherwise.
C26_UntrackedDeletes ==
    \A w \in Slots :
        LET e == file[w]
        IN e.upload /\ KindUntracked(e) =>
            /\ e.pc \notin {"CopyRequest", "UploadRequest", "SetFileInfo"}
            /\ \A i \in 1..Len(e.log) :
                  e.log[i].op \notin {"CopyRequest", "UploadRequest"}
            /\ e.pc = "done" /\ ~e.err => UntrackedOutcome(e)

\* C26: the same, with the DeleteRequest sent only outside a practice run.
C26_UntrackedDeletesUnlessPractice ==
    \A w \in Slots :
        LET e == file[w]
        IN e.upload /\ KindUntracked(e) =>
            /\ e.pc \notin {"CopyRequest", "UploadRequest", "SetFileInfo"}
            /\ \A i \in 1..Len(e.log) :
                  e.log[i].op \notin {"CopyRequest", "UploadRequest"}
            /\ e.pc = "done" /\ ~e.err /\ ~opts.Practice => UntrackedOutcome(e)

\* C26, witness: a directory that is not tracked masked a cached file; the
\* object and the row have been deleted.
C26_MaskedFileDeleted ==
    \E w \in Slots :
        LET e == file[w]
        IN /\ e.upload /\ e.pc = "done" /\ ~e.err
           /\ e.LocalInfo.kind = "directory" /\ ~opts.Directories
           /\ e.CacheInfo # NoInfo
           /\ Has(e, "DeleteRequest", "ok")
           /\ cache[e.path] = NoObj /\ server[e.path] = NoObj

\* C27: the dedup map that ScanServer builds holds no record whose hash
\* is the md5 of the empty file, and a local file with that hash is never
\* sent with CopyRequest: a Push remote-update of it goes to UploadRequest
\* with no copy source.
C27_EmptyNeverCopied ==
    /\ \A h \in Hashes \cup {empty_file_md5_hash} :
          ByContents(h) # "" => scan[ByContents(h)].hash # empty_file_md5_hash
    /\ \A w \in Slots :
          LET e == file[w]
          IN e.LocalHashHex = empty_file_md5_hash =>
               /\ e.src = "" /\ e.pc \notin {"CopyRequest", "GetPathFromMd5"}
               /\ \A res \in RequestOutcomes : ~Has(e, "CopyRequest", res)
               /\ e.upload /\ e.pc \notin {"ClearFileInfo", "done"}
                     => e.pc \in {"UploadRequest", "SetFileInfo"}

\* C27, witness: the scan has listed an empty object, and an empty local
\* file has been sent with UploadRequest.
C27_EmptyUploaded ==
    \E w \in Slots :
        /\ opts.Refresh
        /\ \E p \in Paths : scan[p].hash = empty_file_md5_hash
        /\ file[w].LocalHashHex = empty_file_md5_hash
        /\ file[w].LocalInfo.kind = "regular"
        /\ Has(file[w], "UploadRequest", "ok")

\* C22: a reconciliation that returns an error does not stop the
\* scheduler.  In the step that takes the worker's finished signal the
\* in-flight counter goes down by one, no pending path is dropped, and the
\* coordinator goes on unless a shutdown has been asked for and nothing is
\* pending or in flight; and from then on, while a path is pending and
\* there is room for a worker, a sleeper is out whose timeout runs the
\* dispatch loop.
C22_FailureDoesNotStop ==
    [][/\ hist'.err # hist.err =>
            /\ inflight' = inflight - 1
            /\ queue' = queue /\ pendingCandidates' = pendingCandidates
            /\ \/ coord' = "running"
               \/ shutdown /\ inflight' = 0 /\ Len(queue) = 0
       /\ hist'.err # "nil" /\ coord' = "running" /\ Len(queue') > 0
             /\ inflight' < maxInFlight => sleepers' # <<>>]_vars

\* C22, witness: with one worker at a time, a reconciliation has failed and
\* the worker of another path has been dispatched since.
C22_DispatchedAfterFailure ==
    /\ maxInFlight = 1 /\ hist.err # "nil"
    /\ \E push \in BOOLEAN : workers[<<"b", push>>] > 0

\* C23: once a reconciliation has returned an error of the cache, no worker
\* is dispatched any more.
C23_CacheErrorAborts ==
    [][hist.err = "cache" =>
          \A w \in Paths \X BOOLEAN : workers'[w] <= workers[w]]_vars

\* ------------------------------------------------------ claims: the scans
\* the row of path k agrees with what the server listed for k
RowAsListed(k) ==
    /\ table[k] # NoRow /\ bucket[k] # Unlisted
    /\ table[k].md5 = bucket[k].ETag[2]
    /\ table[k].size = bucket[k].Size

\* C28: after ScanServer, ScanCache and an AuditCache that returns no
\* error, the cache table holds exactly those of its previous rows whose
\* path the server listed with the same md5 and the same size: every other
\* row has been deleted and the rows kept are as they were.
C28_AuditKeepsListedRows ==
    [][phase = "AuditCache" /\ phase' = "done" =>
          table' = [k \in Keys |-> IF RowAsListed(k) THEN table[k] ELSE NoRow]
      ]_vars

\* C28, witness: an audit has ended without error that kept the row of one
\* path and deleted the row of a path the server listed.
C28_KeptAndDeleted ==
    /\ phase = "done"
    /\ \E k \in Keys : table[k] # NoRow
    /\ \E j \in Keys : bucket[j] # Unlisted /\ ~Catalog[j].present

\* C29: AuditCache commits or rolls back its transaction before it returns:
\* no transaction is open afterwards, and when it returns an error the
\* rows of the cache and the Catalog are as before the call.
C29_AuditIsAtomic ==
    [][phase = "AuditCache" /\ phase' # "AuditCache" =>
          /\ ~txn'
          /\ phase' = "failed" => table' = table /\ Catalog' = Catalog]_vars

\* C30: ScanServer asks for no page after the first one that reports
\* IsTruncated = false, and the catalog it returns then has one entry for
\* every key of the bucket and for no other, each with the hash and the
\* size of its key.
C30_ScanListsEveryKey ==
    /\ phase = "ScanServer" => truncated
    /\ phase = "ScanCache" =>
          \A k \in Keys :
              Catalog[k] = IF bucket[k] = Unlisted THEN NotPresent
                           ELSE [present |-> TRUE,
                                 ServerHashHex |-> bucket[k].ETag[2],
                                 ServerSize |-> bucket[k].Size,
                                 CacheInfo |-> NoCacheInfo,
                                 CacheHashHex |-> ""]

\* C30, witness: a bucket of more keys than one page holds has been
\* scanned to its end.
C30_ScannedInPages ==
    /\ phase = "ScanCache"
    /\ Cardinality({k \in Keys : bucket[k] # Unlisted}) > list_request_size
    /\ \A k \in Keys : bucket[k] # Unlisted => Catalog[k].present

\* ------------------------------------- the cache table, column by column
\* os.FileInfo, the fields the cache and the requests use.  Mode holds the
\* file type and the permission bits as lstat gives them.
FileInfo(uid, gid, mode, mtime, size) ==
    [Uid |-> uid, Gid |-> gid, Mode |-> mode, Mtime_ns |-> mtime,
     Size |-> size]

\* -rw-r--r--, -rw-r-----, lrwxrwxrwx, drwxr-x---, -rwx--x--x
ModeChoices == {33188, 33184, 41471, 16872, 33225}

FileInfoChoices ==
    {FileInfo(1000, 100, m, 7, 5) : m \in ModeChoices}

\* the columns of "CREATE TABLE cache", in the order of the schema
Columns == <<"path", "md5", "uid", "gid", "mode", "mtime", "size">>

Column(name) == CHOOSE i \in 1..Len(Columns) : Columns[i] = name

\* "SELECT <names> FROM cache WHERE path = ?": the named columns of the
\* rows of the path, in the order of the names
Select(d, names, path) ==
    {[i \in 1..Len(names) |-> row[Column(names[i])]] :
        row \in {r \in d : r[Column("path")] = path}}

\* "DELETE FROM cache WHERE path = ?"
Delete(d, path) == {r \in d : r[Column("path")] # path}

\* "INSERT INTO cache VALUES (...)": the values fill the columns in the
\* order of the schema
Insert(d, values) == d \cup {values}

\* uint32(mode) of an int64 that is not negative and below 2^31 (all the
\* model holds), computed on its two 16-bit halves
Uint32(m) == (m % 65536) + 65536 * ((m \div 65536) % 65536)

InsertValues_SizeBeforeMtime(e, uselocal) ==
    LET info == IF uselocal THEN e.LocalInfo ELSE e.CacheInfo
        hash == IF uselocal THEN e.LocalHashHex ELSE e.ServerHashHex
    IN <<e.ServerPath, hash, info.Uid, info.Gid, info.Mode, info.Size,
         info.Mtime_ns>>

\* SetFileInfo: the arguments of its INSERT
InsertValues(e, uselocal) ==
    LET info == IF uselocal THEN e.LocalInfo ELSE e.CacheInfo
        hash == IF uselocal THEN e.LocalHashHex ELSE e.ServerHashHex
    IN <<e.ServerPath, hash, info.Uid, info.Gid, info.Mode, info.Mtime_ns,
         info.Size>>

\* SetFileInfo when no statement fails: DeleteFileInfo, then the INSERT
SetFileInfoRows(d, e, uselocal) ==
    Insert(Delete(d, e.ServerPath), InsertValues(e, uselocal))

\* GetFileInfo when no statement fails: the record after the call
GetFileInfoRecord(d, e) ==
    LET rows == Select(d, <<"md5", "uid", "gid", "mode", "mtime", "size">>,
                       e.ServerPath)
    IN IF rows = {} THEN e
       ELSE LET r == CHOOSE x \in rows : TRUE
            IN [e EXCEPT !.CacheHashHex = r[1],
                         !.CacheInfo = FileInfo(r[2], r[3], Uint32(r[4]),
                                                r[5], r[6])]

\* ------------------------------------------------ the request's headers
s_iroth == 4

acl_public == "public-read"
acl_private == "private"

\* a & b on numbers that are not negative
RECURSIVE BitAnd(_, _)
BitAnd(a, b) ==
    IF a = 0 \/ b = 0 THEN 0
    ELSE (a % 2) * (b % 2) + 2 * BitAnd(a \div 2, b \div 2)

\* os.FileInfo.Permission(): Mode & 0777
Permission(info) == BitAnd(info.Mode, 511)

Acl_ByOwnerBit(info) ==
    IF BitAnd(Permission(info), 256) # 0 THEN acl_public ELSE acl_private

\* SetRequestMetaData: "grant public-read if the file grants world read
\* permission"
Acl(info) ==
    IF BitAnd(Permission(info), s_iroth) # 0 THEN acl_public
    ELSE acl_private

NoHeader == "-"

\* a nil *os.FileInfo
NilInfo == FileInfo(0, 0, 0, 0, 0)

\* SendRequest: the method, the copy source and the X-Amz-Acl header of
\* the request it builds; SetRequestMetaData is called "if info != nil"
SendRequest(method, src, info) ==
    [Method |-> method, CopySource |-> src,
     Acl |-> IF info = NilInfo THEN NoHeader ELSE Acl(info)]

\* a record of NewFile: no LocalInfo and no CacheInfo yet
NewFile(path) ==
    [ServerPath |-> path, LocalInfo |-> NilInfo, LocalHashHex |-> "",
     CacheInfo |-> NilInfo, CacheHashHex |-> "", ServerHashHex |-> ""]

\* a record after Lstat and GetMd5
Records ==
    {[NewFile(p) EXCEPT !.LocalInfo = i, !.LocalHashHex = h] :
        p \in Paths, i \in FileInfoChoices, h \in Hashes}

\* the next record comes up; what the calls on the one before gave is
\* dropped
Hand(e) ==
    /\ step \in {"got", "sent"}
    /\ handed' = e
    /\ fetched' = NewFile(Focus)
    /\ req' = SendRequest("DELETE", "", NilInfo)
    /\ step' = "start"
    /\ UNCHANGED db
    /\ UNCHANGED <<qvars, svars, bvars>>

\* SetFileInfo(elt, true)
MetaSetFileInfo ==
    /\ step = "start"
    /\ db' = SetFileInfoRows(db, handed, TRUE)
    /\ step' = "set"
    /\ UNCHANGED <<handed, fetched, req>>
    /\ UNCHANGED <<qvars, svars, bvars>>

\* GetFileInfo on a new record of the path p
MetaGetFileInfo(p) ==
    /\ step = "set"
    /\ fetched' = GetFileInfoRecord(db, NewFile(p))
    /\ step' = "got"
    /\ UNCHANGED <<db, handed, req>>
    /\ UNCHANGED <<qvars, svars, bvars>>

\* UploadRequest(elt)
MetaUploadRequest ==
    /\ step = "start"
    /\ req' = SendRequest("PUT", "", handed.LocalInfo)
    /\ step' = "sent"
    /\ UNCHANGED <<db, handed, fetched>>
    /\ UNCHANGED <<qvars, svars, bvars>>

\* CopyRequest(elt, src)
MetaCopyRequest(src) ==
    /\ step = "start"
    /\ req' = SendRequest("PUT", src, handed.LocalInfo)
    /\ step' = "sent"
    /\ UNCHANGED <<db, handed, fetched>>
    /\ UNCHANGED <<qvars, svars, bvars>>

\* DeleteRequest(elt)
MetaDeleteRequest ==
    /\ step = "start"
    /\ req' = SendRequest("DELETE", "", NilInfo)
    /\ step' = "sent"
    /\ UNCHANGED <<db, handed, fetched>>
    /\ UNCHANGED <<qvars, svars, bvars>>

MetaInit ==
    /\ QueueQuiet
    /\ SyncQuiet
    /\ ScanQuiet
    /\ db = {}
    /\ handed \in Records
    /\ fetched = NewFile(Focus)
    /\ req = SendRequest("DELETE", "", NilInfo)
    /\ step = "start"

MetaNext ==
    \/ \E e \in Records : Hand(e)
    \/ MetaSetFileInfo
    \/ \E p \in Paths : MetaGetFileInfo(p)
    \/ MetaUploadRequest
    \/ \E p \in Paths : MetaCopyRequest(p)
    \/ MetaDeleteRequest

SpecMeta == MetaInit /\ [][MetaNext]_vars

\* ------------------------------------------- claims: LstatServer and more
\* the step is the operation of w that its pc names
Acted(w, pc) ==
    file[w].pc = pc /\ Len(file'[w].log) = Len(file[w].log) + 1

\* the result of the operation that the step has added to the log of w
Result(w) == file'[w].log[Len(file[w].log) + 1].res

\* what C31 says of the answers to a StatRequest: an error status is
\* returned as an error, 404 is no error and leaves CacheInfo nil, 2xx
\* goes on to SetFileInfo(elt, false) with the metadata and the hash of
\* the object; the cache is as it was in all three
Answered(w) ==
    LET e == file[w]
        f == file'[w]
    IN /\ e.ServerHashHex # "" /\ e.CacheInfo = NoInfo
       /\ cache' = cache
       /\ IF Result(w) # "ok" THEN f.pc = "done" /\ f.err
          ELSE IF server[e.path] = NoObj
          THEN f.CacheInfo = NoInfo /\ ~f.err /\ f.pc # "LearnFileInfo"
          ELSE /\ f.pc = "LearnFileInfo"
               /\ f.CacheInfo = server[e.path].info
               /\ f.ServerHashHex = server[e.path].hash

C32_SetThenGetRoundTrip ==
    [][/\ step' = "set" =>
            /\ {r \in db' : r[1] # handed.ServerPath}
                 = {r \in db : r[1] # handed.ServerPath}
            /\ Cardinality({r \in db' : r[1] = handed.ServerPath}) = 1
       /\ (step' = "got" /\ fetched'.ServerPath = handed.ServerPath) =>
            /\ fetched'.CacheInfo.Uid = handed.LocalInfo.Uid
            /\ fetched'.CacheInfo.Gid = handed.LocalInfo.Gid
            /\ fetched'.CacheInfo.Mode = handed.LocalInfo.Mode
            /\ fetched'.CacheInfo.Mtime_ns = handed.LocalInfo.Mtime_ns
            /\ fetched'.CacheInfo.Size = handed.LocalInfo.Size
            /\ fetched'.CacheHashHex = handed.LocalHashHex]_vars

\* C32 witness: a row of the path was replaced by SetFileInfo beside a row of
\* the other path, and GetFileInfo has read it back: a symbolic link of
\* user 1000.
C32_ReadBack ==
    /\ step = "got" /\ fetched.ServerPath = handed.ServerPath
    /\ Cardinality(db) = 2
    /\ fetched.CacheInfo = FileInfo(1000, 100, 41471, 7, 5)
    /\ fetched.CacheHashHex = "h2"

DispatchableNow(p) ==
    /\ \E i \in 1..Len(sleepers) : now >= sleepers[i] \/ shutdown
    /\ TimeoutLoop[[queue |-> queue, cand |-> cand,
                    pend |-> pendingCandidates, inflight |-> inflight,
                    started |-> <<>>]].pend[p] = 0

\* C34 (the claim as stated): when the latest ingress event of a path was
\* immediate and the in-flight counter is below maxInFlight, the path is
\* dispatched without waiting: a timer event is due that starts its worker.
C34_ImmediateEligibleAtOnce ==
    (/\ budget # Unlimited /\ coord = "running"
     /\ hist.asked /\ Pending(Focus) /\ inflight < maxInFlight)
        => DispatchableNow(Focus)

\* C35 (the claim as stated): at most one sleeper is outstanding, waiting is
\* true exactly while one is outstanding, also after a shutdown request, and
\* none is outstanding once the coordinator has exited.
C35_OneSleeperOutstanding ==
    /\ Len(sleepers) <= 1
    /\ coord = "running" => (waiting <=> Len(sleepers) = 1)
    /\ coord = "exited" => sleepers = <<>>

\* The effective timestamp of a pending path: the code keeps it in Updated,
\* which an ingress event sets to its time (main.go:651, 656) less delay
\* for a new immediate entry (660).
Effective(p) == cand[pendingCandidates[p]].Updated

\* the workers that a timer event delivered now would start, in order
StartedNow ==
    TimeoutLoop[[queue |-> queue, cand |-> cand, pend |-> pendingCandidates,
                 inflight |-> inflight, started |-> <<>>]].started

\* C36: whenever a path is dispatched, no path that stays pending has a
\* strictly smaller effective timestamp, and the paths dispatched by one
\* timer event are started in the order of their effective timestamps.
C36_DispatchedInTimestampOrder ==
    [][(\E d \in Paths : Pending(d) /\ pendingCandidates'[d] = 0) =>
          /\ \A p, q \in Paths :
                (Pending(p) /\ pendingCandidates'[p] = 0
                            /\ pendingCandidates'[q] # 0)
                    => Effective(p) <= Effective(q)
          /\ \A i, j \in 1..Len(StartedNow) :
                i < j => Effective(StartedNow[i][1])
                            <= Effective(StartedNow[j][1])]_vars

\* C36 witness: with room for two workers and no shutdown, b was dispatched
\* and a, whose latest event came at the latest time, stays pending.
C36_LaterPathWaits ==
    /\ maxInFlight = 2 /\ ~shutdown /\ inflight = 1 /\ NWorkers("b") = 1
    /\ Pending("a") /\ Effective("a") = MaxTime

\* C37: whenever the heap is non-empty and the in-flight counter is below
\* maxInFlight a sleeper is outstanding; and when workers finish and
\* maxInFlight is at least 1, a pending path whose events have stopped is
\* eventually dispatched unless shutdown is requested.
C37_NoLostWakeUp ==
    /\ [](coord = "running" /\ Len(queue) > 0 /\ inflight < maxInFlight
            => Len(sleepers) >= 1)
    /\ \A p \in Paths :
          (Pending(p) /\ maxInFlight >= 1) ~> (~Pending(p) \/ shutdown)

\* C37 witness: without a shutdown request, with maxInFlight = 1, a worker
\* has finished while another path was held back at capacity, and the
\* sleeper armed on that event is outstanding for it.
C37_RearmedAfterFinish ==
    /\ ~shutdown /\ maxInFlight = 1 /\ inflight = 0 /\ hist.ndisp = 1
    /\ NWorkers(Focus) = 0 /\ Pending("b") /\ Len(sleepers) = 1
    /\ now = MaxTime

\* the heap and the index map hold the same entries, each path once
HeapMatchesMap ==
    /\ \A k \in 1..Len(queue) :
          /\ cand[queue[k]].Name \in Paths
          /\ pendingCandidates[cand[queue[k]].Name] = queue[k]
    /\ \A p \in Paths :
          Pending(p) =>
              Cardinality({k \in 1..Len(queue) :
                              queue[k] = pendingCandidates[p]}) = 1
    /\ Len(queue) = Cardinality({p \in Paths : Pending(p)})

\* C38: in every state between coordinator events the heap and the index
\* map hold the same entries, each pending path exactly once in the heap as
\* the entry the map gives for it; a path that is not pending (never seen,
\* or dispatched) is in neither, and only an ingress event makes it pending.
C38_HeapAndMapAgree ==
    /\ []HeapMatchesMap
    /\ [][\A p \in Paths :
            (~Pending(p) /\ pendingCandidates'[p] # 0)
                => budget' = budget - 1]_vars

\* C38 witness: a path that was dispatched is pending again after a new
\* ingress event, with one entry in the heap and in the map, while its
\* worker still runs.
C38_PendingAgainAfterDispatch ==
    /\ hist.ndisp = 1 /\ hist.n = 2 /\ Pending(Focus) /\ Len(queue) = 1
    /\ NWorkers(Focus) = 1

\* C39 (the claim as stated): whenever UploadFile sends a CopyRequest, the
\* source holds at that moment an object whose md5 is LocalHashHex, and a
\* successful copy leaves at the destination an object of that md5.
C39_CopySourceHoldsHash ==
    [][\A w \in Slots :
          Acted(w, "CopyRequest") =>
              /\ server[file[w].src].hash = file[w].LocalHashHex
              /\ Result(w) = "ok"
                    => server'[file[w].path].hash = file[w].LocalHashHex]_vars

\* the requests that change the bucket: PUT (upload, copy) and DELETE
Mutating == {"UploadRequest", "CopyRequest", "DeleteRequest"}

\* C40: a reconciliation with Push set never removes or writes a local
\* file, and one with Push unset never issues a PUT or DELETE request (and
\* leaves the bucket as it is).
C40_DirectionConfinesEffects ==
    [][/\ opts.Push => local' = local
       /\ ~opts.Push =>
            /\ server' = server
            /\ \A w \in Slots :
                  Len(file'[w].log) = Len(file[w].log) + 1
                      => file'[w].log[Len(file'[w].log)].op \notin Mutating]_vars

\* C40 witness: a reconciliation with Push unset has removed the local file
\* that the cache does not know, while the bucket holds an object for
\* another path.
C40_PullRemovedLocalFile ==
    \E w \in Slots :
        /\ ~opts.Push /\ file[w].pc = "done" /\ ~file[w].err
        /\ Has(file[w], "Remove", "ok") /\ local[file[w].path] = NoFile
        /\ \E q \in Paths : server[q] # NoObj

TypeOK ==
    /\ inflight \in Int
    /\ waiting \in BOOLEAN
    /\ Len(queue) <= Cardinality(Paths) + 1

====
